---- MODULE Spec2Model ----
(***************************************************************************)
(* Model of the treatment reconciliation protocol of the Nightscout /      *)
(* Telegram bridge: the metadata codec (app/utils/treatments.py), the      *)
(* PUT /api/treatment handler (app/main.py) and the reconciling updater    *)
(* (app/services/nightscout.py), run against a model of the remote store.  *)
(*                                                                         *)
(* Representation.  A Python value is a record [t, w, u, z]:               *)
(*   None        t = "none"                                                *)
(*   a number    t = "num", value w + u / 10^6 (w whole part, u millionths)*)
(*   a string    t = "str", z the sequence of its tokens                   *)
(* A string is a sequence of tokens, a token being a piece of text or a    *)
(* number literal.  A Python dict that is serialised (the metadata) is a   *)
(* sequence of key/value pairs in insertion order; a store document or a   *)
(* patch is a function from field names to values.                         *)
(***************************************************************************)
EXTENDS Integers, Sequences, FiniteSets, TLC

-----------------------------------------------------------------------------
(* Values and tokens *)

Micro == 1000000

None == [t |-> "none", w |-> 0, u |-> 0, z |-> <<>>]
Num(w, u) == [t |-> "num", w |-> w, u |-> u, z |-> <<>>]
Str(z) == [t |-> "str", w |-> 0, u |-> 0, z |-> z]

Tok(s) == [k |-> "c", w |-> 0, u |-> 0, s |-> s]
NumTok(w, u) == [k |-> "n", w |-> w, u |-> u, s |-> ""]

Text(s) == Str(<<Tok(s)>>)
EmptyStr == Str(<<>>)

\* Python truthiness of a scalar value: None, 0 and "" are falsy.
Truthy(v) ==
    CASE v.t = "none" -> FALSE
      [] v.t = "num" -> ~(v.w = 0 /\ v.u = 0)
      [] OTHER -> Len(v.z) > 0

\* dict.get(key) on a document: None when the key is absent.
Get(doc, key) == IF key \in DOMAIN doc THEN doc[key] ELSE None

\* dict.update: the right operand wins on every shared key.
DictUpdate(base, over) ==
    [k \in (DOMAIN base) \cup (DOMAIN over) |->
        IF k \in DOMAIN over THEN over[k] ELSE base[k]]

\* dict.pop(key, None) on a document.
DictPop(doc, key) == [k \in (DOMAIN doc) \ {key} |-> doc[k]]

EmptyDict == [k \in {} |-> None]

-----------------------------------------------------------------------------
(* The ordered dict of the embedded metadata: a sequence of [k, v] pairs *)

RECURSIVE MetaHas(_, _)
MetaHas(meta, key) ==
    IF meta = <<>> THEN FALSE
    ELSE IF Head(meta).k = key THEN TRUE ELSE MetaHas(Tail(meta), key)

RECURSIVE MetaGet(_, _)
MetaGet(meta, key) ==
    IF meta = <<>> THEN None
    ELSE IF Head(meta).k = key THEN Head(meta).v ELSE MetaGet(Tail(meta), key)

\* meta.pop(key, None)
MetaPop(meta, key) == SelectSeq(meta, LAMBDA p : p.k # key)

\* meta[key] = value: overwrite in place, or append a new key
MetaSet(meta, key, value) ==
    IF MetaHas(meta, key)
    THEN [i \in 1..Len(meta) |->
            IF meta[i].k = key THEN [k |-> key, v |-> value] ELSE meta[i]]
    ELSE Append(meta, [k |-> key, v |-> value])

MetaKeys(meta) == {meta[i].k : i \in 1..Len(meta)}

\* Two metadata dicts are equal as Python dicts (order does not count).
MetaEq(a, b) ==
    /\ MetaKeys(a) = MetaKeys(b)
    /\ \A key \in MetaKeys(a) : MetaGet(a, key) = MetaGet(b, key)

-----------------------------------------------------------------------------
(* json.dumps(meta, ensure_ascii=False, separators=(",", ":")) *)

QUOTE == Tok("\"")
LBRACE == Tok("{")
RBRACE == Tok("}")
LBRACK == Tok("[")
RBRACK == Tok("]")
COLON == Tok(":")
COMMA == Tok(",")
NULL == Tok("null")

JsonScalar(v) ==
    CASE v.t = "none" -> <<NULL>>
      [] v.t = "num" -> <<NumTok(v.w, v.u)>>
      [] OTHER -> <<QUOTE>> \o v.z \o <<QUOTE>>

JsonMember(p) == <<QUOTE, Tok(p.k), QUOTE, COLON>> \o JsonScalar(p.v)

RECURSIVE JsonMembers(_)
JsonMembers(meta) ==
    IF meta = <<>> THEN <<>>
    ELSE IF Len(meta) = 1 THEN JsonMember(meta[1])
    ELSE JsonMember(meta[1]) \o <<COMMA>> \o JsonMembers(Tail(meta))

JsonDumps(meta) == <<LBRACE>> \o JsonMembers(meta) \o <<RBRACE>>

-----------------------------------------------------------------------------
(* json.loads on a token sequence.  The result is                          *)
(*   [kind |-> "dict", d |-> pairs]   a JSON object of scalars             *)
(*   [kind |-> "list"]                a JSON array of scalars              *)
(*   [kind |-> "scalar", v |-> value] a number, a string or null           *)
(*   [kind |-> "error"]               json.JSONDecodeError                 *)

JErr == [kind |-> "error", d |-> <<>>, v |-> None, n |-> 0]
JDict(d) == [kind |-> "dict", d |-> d, v |-> None, n |-> Len(d)]
JList(n) == [kind |-> "list", d |-> <<>>, v |-> None, n |-> n]
JScalar(v) == [kind |-> "scalar", d |-> <<>>, v |-> v, n |-> 0]

\* Position of the first QUOTE at or after i, 0 when there is none.
RECURSIVE NextQuote(_, _)
NextQuote(toks, i) ==
    IF i > Len(toks) THEN 0
    ELSE IF toks[i] = QUOTE THEN i ELSE NextQuote(toks, i + 1)

\* A scalar starting at position i: [ok, v, next].
ScalarAt(toks, i) ==
    IF i > Len(toks) THEN [ok |-> FALSE, v |-> None, next |-> i]
    ELSE IF toks[i].k = "n"
        THEN [ok |-> TRUE, v |-> Num(toks[i].w, toks[i].u), next |-> i + 1]
    ELSE IF toks[i] = NULL
        THEN [ok |-> TRUE, v |-> None, next |-> i + 1]
    ELSE IF toks[i] = QUOTE /\ NextQuote(toks, i + 1) # 0
        THEN LET j == NextQuote(toks, i + 1) IN
             [ok |-> TRUE, v |-> Str(SubSeq(toks, i + 1, j - 1)), next |-> j + 1]
    ELSE [ok |-> FALSE, v |-> None, next |-> i]

\* Members of an object from position i (just after "{" or ","), acc the
\* pairs read so far; a duplicate key keeps its place and takes the last value.
RECURSIVE MembersAt(_, _, _)
MembersAt(toks, i, acc) ==
    LET key == ScalarAt(toks, i) IN
    IF ~key.ok \/ key.v.t # "str" \/ Len(key.v.z) # 1 THEN JErr
    ELSE IF key.next > Len(toks) \/ toks[key.next] # COLON THEN JErr
    ELSE LET val == ScalarAt(toks, key.next + 1)
             acc2 == MetaSet(acc, key.v.z[1].s, val.v)
         IN IF ~val.ok \/ val.next > Len(toks) THEN JErr
            ELSE IF toks[val.next] = RBRACE
                THEN (IF val.next = Len(toks) THEN JDict(acc2) ELSE JErr)
            ELSE IF toks[val.next] = COMMA
                THEN MembersAt(toks, val.next + 1, acc2)
            ELSE JErr

\* Items of an array from position i, n the items read so far.
RECURSIVE ItemsAt(_, _, _)
ItemsAt(toks, i, n) ==
    LET val == ScalarAt(toks, i) IN
    IF ~val.ok \/ val.next > Len(toks) THEN JErr
    ELSE IF toks[val.next] = RBRACK
        THEN (IF val.next = Len(toks) THEN JList(n + 1) ELSE JErr)
    ELSE IF toks[val.next] = COMMA THEN ItemsAt(toks, val.next + 1, n + 1)
    ELSE JErr

JsonLoads(toks) ==
    IF toks = <<>> THEN JErr
    ELSE IF toks[1] = LBRACE
        THEN (IF Len(toks) = 2 /\ toks[2] = RBRACE THEN JDict(<<>>)
              ELSE MembersAt(toks, 2, <<>>))
    ELSE IF toks[1] = LBRACK
        THEN (IF Len(toks) = 2 /\ toks[2] = RBRACK THEN JList(0)
              ELSE ItemsAt(toks, 2, 0))
    ELSE LET val == ScalarAt(toks, 1) IN
         IF val.ok /\ val.next = Len(toks) + 1 THEN JScalar(val.v) ELSE JErr

\* Python truthiness of a parsed JSON value.
JTruthy(j) ==
    CASE j.kind = "dict" -> j.d # <<>>
      [] j.kind = "list" -> j.n > 0
      [] j.kind = "scalar" -> Truthy(j.v)
      [] OTHER -> FALSE

-----------------------------------------------------------------------------
(* app/utils/treatments.py *)

META_PREFIX == <<Tok("[alice-meta]")>>

StartsWith(z, prefix) ==
    Len(z) >= Len(prefix) /\ SubSeq(z, 1, Len(prefix)) = prefix

\* parse_meta: {} unless notes carries the sentinel and the rest is JSON;
\* whatever json.loads returns is returned, a dict or not.
OrEmptyDict(parsed) == IF parsed.kind = "error" THEN JDict(<<>>) ELSE parsed

parse_meta(notes) ==
    IF ~Truthy(notes) \/ ~StartsWith(notes.z, META_PREFIX) THEN JDict(<<>>)
    ELSE OrEmptyDict(JsonLoads(SubSeq(notes.z, Len(META_PREFIX) + 1, Len(notes.z))))

\* The loop over updates.items(): a None value pops the key, any other sets it.
RECURSIVE MergeUpdates(_, _)
MergeUpdates(meta, updates) ==
    IF updates = <<>> THEN meta
    ELSE LET p == Head(updates) IN
         MergeUpdates(IF p.v = None THEN MetaPop(meta, p.k)
                      ELSE MetaSet(meta, p.k, p.v),
                      Tail(updates))

Returned(notes) == [raised |-> FALSE, notes |-> notes]
Raised == [raised |-> TRUE, notes |-> None]

MetaOrShellWheneverEmpty(parsed, notes) ==
    IF ~JTruthy(parsed)
    THEN JDict(<<[k |-> "ver", v |-> Num(1, 0)]>>)
    ELSE parsed

\* Lines 23-26: the decoded metadata, or the fresh shell {"ver": 1} when
\* there is neither metadata nor notes.
MetaOrShell(parsed, notes) ==
    IF ~JTruthy(parsed) /\ ~Truthy(notes)
    THEN JDict(<<[k |-> "ver", v |-> Num(1, 0)]>>)
    ELSE parsed

\* Lines 28-38.  A truthy parse result that is not a dict has no
\* pop(key, default) and no item assignment by key: the loop raises.
MergeAndDump(meta, notes, updates) ==
    IF ~JTruthy(meta) THEN Returned(notes)
    ELSE IF meta.kind # "dict" THEN Raised
    ELSE Returned(Str(META_PREFIX \o JsonDumps(MergeUpdates(meta.d, updates))))

\* apply_meta_updates: [raised, notes]
apply_meta_updates(notes, updates) ==
    IF updates = <<>> THEN Returned(notes)
    ELSE MergeAndDump(MetaOrShell(parse_meta(notes), notes), notes, updates)

-----------------------------------------------------------------------------
(* Numbers: ordering and math.isclose *)

Max(a, b) == IF a >= b THEN a ELSE b

\* a <= b on values w + u / 10^6
NumLeq(a, b) == a.w < b.w \/ (a.w = b.w /\ a.u <= b.u)

\* math.isclose(a, b, rel_tol=1e-6, abs_tol=1e-6) for non-negative numbers
\* below 10^6: |a - b| <= max(1e-6 * max(|a|, |b|), 1e-6).  In millionths the
\* right side is max(hi, 1) with hi the larger number, so the integer
\* difference is within it exactly when it is at most max(hi.w, 1).
IsClose(a, b) ==
    LET hi == IF NumLeq(a, b) THEN b ELSE a
        lo == IF NumLeq(a, b) THEN a ELSE b
    IN IF hi.w - lo.w >= 2 THEN FALSE
       ELSE (hi.w - lo.w) * Micro + (hi.u - lo.u) <= Max(hi.w, 1)

\* int(x) for a non-negative number: truncation
IntOf(v) == Num(v.w, 0)

-----------------------------------------------------------------------------
(* app/main.py: parsing and validation of the form fields *)

SPACE == Tok(" ")

\* str.strip(): leading and trailing whitespace tokens removed
RECURSIVE LStrip(_)
LStrip(z) == IF z # <<>> /\ Head(z) = SPACE THEN LStrip(Tail(z)) ELSE z

RECURSIVE RStrip(_)
RStrip(z) ==
    IF z # <<>> /\ z[Len(z)] = SPACE THEN RStrip(SubSeq(z, 1, Len(z) - 1)) ELSE z

Strip(z) == RStrip(LStrip(z))

\* str.lower() on the tokens of the event type labels
LowerTok(tok) ==
    CASE tok.s \in {"None", "NONE", "none"} -> Tok("none")
      [] tok.s = "Meal Bolus" -> Tok("meal bolus")
      [] tok.s = "Carb Correction" -> Tok("carb correction")
      [] tok.s = "Correction Bolus" -> Tok("correction bolus")
      [] OTHER -> tok

Lower(z) == [i \in 1..Len(z) |-> LowerTok(z[i])]

Parsed(v) == [ok |-> TRUE, v |-> v]
Invalid == [ok |-> FALSE, v |-> None]

\* float(raw): a number literal, surrounding whitespace allowed
FloatOf(raw) ==
    LET z == Strip(raw.z) IN
    IF Len(z) = 1 /\ z[1].k = "n" THEN Parsed(Num(z[1].w, z[1].u)) ELSE Invalid

_parse_optional_float(raw, min_value, max_value) ==
    IF raw = None \/ raw = EmptyStr THEN Parsed(None)
    ELSE LET f == FloatOf(raw) IN
         IF ~f.ok THEN Invalid
         ELSE IF ~(NumLeq(min_value, f.v) /\ NumLeq(f.v, max_value)) THEN Invalid
         ELSE f

_parse_optional_int(raw, min_value, max_value) ==
    IF raw = None \/ raw = EmptyStr THEN Parsed(None)
    ELSE LET f == FloatOf(raw) IN
         IF ~f.ok THEN Invalid
         ELSE IF ~(NumLeq(min_value, IntOf(f.v)) /\ NumLeq(IntOf(f.v), max_value))
              THEN Invalid
         ELSE Parsed(IntOf(f.v))

AllowedEventTypes ==
    {<<Tok("Meal Bolus")>>, <<Tok("Carb Correction")>>,
     <<Tok("Correction Bolus")>>, <<Tok("None")>>}

_normalize_event_type(value) ==
    IF value = None THEN Parsed(None)
    ELSE LET z == Strip(value.z) IN
         IF Lower(z) = <<Tok("none")>> THEN Parsed(None)
         ELSE IF z \notin AllowedEventTypes THEN Invalid
         ELSE Parsed(Str(z))

DifferentExactly(current, new_value) == current # new_value

\* _different(current, new_value)
_different(current, new_value) ==
    IF current = None /\ new_value = None THEN FALSE
    ELSE IF current.t = "num" /\ new_value.t = "num"
         THEN ~IsClose(current, new_value)
    ELSE current # new_value

\* x.strip() if x else None
CleanText(raw) == IF Truthy(raw) THEN Str(Strip(raw.z)) ELSE None

-----------------------------------------------------------------------------
(* app/main.py: the synchronous part of PUT /api/treatment after the lookup *)

INSULIN_MAX == 50
CARBS_MAX == 2000
CALORIES_MAX == 100000
PROTEIN_MAX == 10000

ParsedRequest(event_type, insulin, carbs, calories, protein, meal, photo_url) ==
    [ok |-> event_type.ok /\ insulin.ok /\ carbs.ok /\ calories.ok /\ protein.ok,
     eventType |-> event_type.v,
     insulin |-> insulin.v,
     carbs |-> carbs.v,
     calories_kcal |-> calories.v,
     protein_g |-> protein.v,
     meal |-> meal,
     photoUrl |-> photo_url]

\* Lines 128-134: the parsed request values; ok is false when a field is
\* rejected with 400.
ParseRequest(r) ==
    ParsedRequest(
        _normalize_event_type(r.eventType),
        _parse_optional_float(r.insulin, Num(0, 0), Num(INSULIN_MAX, 0)),
        _parse_optional_float(r.carbs, Num(0, 0), Num(CARBS_MAX, 0)),
        _parse_optional_int(r.calories, Num(0, 0), Num(CALORIES_MAX, 0)),
        _parse_optional_int(r.protein, Num(0, 0), Num(PROTEIN_MAX, 0)),
        CleanText(r.meal),
        CleanText(r.photoUrl))

PatchFields == {"eventType", "insulin", "carbs", "calories_kcal", "protein_g",
                "meal", "photoUrl"}

FieldPatchAllSupplied(record, vals) ==
    [f \in {g \in PatchFields : vals[g] # None} |-> vals[f]]

\* Lines 139-166: the first-class fields of the patch
FieldPatch(record, vals) ==
    [f \in {g \in PatchFields : _different(Get(record, g), vals[g])} |-> vals[f]]

Mirror(cond, key, value) == IF cond THEN <<[k |-> key, v |-> value]>> ELSE <<>>

\* Lines 142-166: meta_updates, in the order the handler fills it
MetaUpdates(record, vals) ==
    Mirror(_different(Get(record, "insulin"), vals.insulin), "insulin_u", vals.insulin)
    \o Mirror(_different(Get(record, "carbs"), vals.carbs), "carbs_g",
              IF vals.carbs # None THEN IntOf(vals.carbs) ELSE None)
    \o Mirror(_different(Get(record, "calories_kcal"), vals.calories_kcal),
              "calories_kcal", vals.calories_kcal)
    \o Mirror(_different(Get(record, "protein_g"), vals.protein_g),
              "protein_g", vals.protein_g)
    \o Mirror(_different(Get(record, "meal"), vals.meal), "meal", vals.meal)
    \o Mirror(_different(Get(record, "photoUrl"), vals.photoUrl),
              "photoUrl", vals.photoUrl)

\* Lines 168-170: the notes key joins the patch when the codec changed it
WithNotes(fields, enc, notes) ==
    [raised |-> enc.raised,
     patch |-> IF ~enc.raised /\ enc.notes # notes
               THEN DictUpdate(fields, [k \in {"notes"} |-> enc.notes])
               ELSE fields]

\* Lines 136-170: [raised, patch]; raised when apply_meta_updates raises
ComputePatch(record, vals) ==
    WithNotes(FieldPatch(record, vals),
              apply_meta_updates(Get(record, "notes"), MetaUpdates(record, vals)),
              Get(record, "notes"))

-----------------------------------------------------------------------------
(* State *)

Procs == {"p1", "p2"}

VARIABLES
    store,      \* the remote store: the set of its documents
    nextId,     \* the number the store gives the next inserted document
    version,    \* "new": PUT by id modifies in place; "old": PUT by id is 404
    settings,   \* the process-wide configuration (allowed_user_ids)
    pc,         \* per call: the remote call it is about to make
    caller,     \* per call: "handler" (PUT /api/treatment) or "service"
    req,        \* per call: the form fields of the handler's request
    tid,        \* per call: treatment_id
    record,     \* per call: the record the handler's lookup found, [some, doc]
    patch,      \* per call: the patch handed to update_treatment
    existing,   \* per call: the `existing` argument, [some, doc]
    pending,    \* per call: the recreate insert's error while restoring
    result,     \* per call: what the caller gets
    calls,      \* per call: the remote calls issued so far, in order
    budget,     \* per process: the calls it may still start
    cstart,     \* codec: the notes the sequence of encodes started from
    ckeys,      \* codec: the keys the encodes of the sequence were given
    cnotes,     \* codec: the notes the next encode starts from
    cprev,      \* codec: the notes the last encode was given
    cupd,       \* codec: the updates the last encode was given
    cout,       \* codec: what the last encode gave back, [raised, notes]
    ccount,     \* codec: the encode calls made
    fpc,        \* fetch: "idle", "page" (about to GET a page) or "done"
    fpage,      \* fetch: page_size
    frows,      \* fetch: the rows of the store inside the time range
    fskip,      \* fetch: skip
    fresults,   \* fetch: len(results)
    fout,       \* fetch: "pending", "returned" or "raised"
    fgets,      \* fetch: the GET requests made
    flast,      \* fetch: the skip and the answer of the last GET
    atreat,     \* aggregate: the treatments given
    ai,         \* aggregate: the records the loop has taken
    atotals,    \* aggregate: totals
    adaily,     \* aggregate: daily, a function from the days it has seen
    aout,       \* aggregate: "pending", "returned" or "raised"
    bpc,        \* bot: "off", "poll", "sleep", "take", "handle" or "closed"
    boffset,    \* bot: self._offset, [some, v]
    bbatch,     \* bot: the updates of the batch not yet taken, their ids
    bcur,       \* bot: the update_id of the update the handler was given
    bhanded,    \* bot: the update_ids handed to the handler, in order
    braised,    \* bot: the update_ids whose handler raised
    bend,       \* bot: the exception that ended run, "" while it runs
    tqueue,     \* messaging server: the update_ids not yet confirmed
    tnext       \* messaging server: the update_id of the next update

sysvars == <<store, nextId, version, settings, pc, caller, req, tid, record,
             patch, existing, pending, result, calls, budget>>
codecvars == <<cstart, ckeys, cnotes, cprev, cupd, cout, ccount>>
fetchvars == <<fpc, fpage, frows, fskip, fresults, fout, fgets, flast>>
aggvars == <<atreat, ai, atotals, adaily, aout>>
botvars == <<bpc, boffset, bbatch, bcur, bhanded, braised, bend, tqueue, tnext>>
\* what the update flow leaves alone
apartvars == <<codecvars, fetchvars, aggvars, botvars>>
vars == <<store, nextId, version, settings, pc, caller, req, tid, record,
          patch, existing, pending, result, calls, budget,
          cstart, ckeys, cnotes, cprev, cupd, cout, ccount,
          fpc, fpage, frows, fskip, fresults, fout, fgets, flast,
          atreat, ai, atotals, adaily, aout,
          bpc, boffset, bbatch, bcur, bhanded, braised, bend, tqueue, tnext>>

-----------------------------------------------------------------------------
(* Errors and results *)

NoErr == [kind |-> "none", src |-> "", code |-> 0]
HttpStatusError(src, code) == [kind |-> "HTTPStatusError", src |-> src, code |-> code]
TransportError(src) == [kind |-> "TransportError", src |-> src, code |-> 0]
JSONDecodeError(src) == [kind |-> "JSONDecodeError", src |-> src, code |-> 0]
TypeError(src) == [kind |-> "TypeError", src |-> src, code |-> 0]

Pending == [st |-> "pending", http |-> 0, detail |-> "", updated |-> FALSE,
            err |-> NoErr, ret |-> ""]
\* the service function returned `ret`
Return(ret) == [Pending EXCEPT !.st = "returned", !.ret = ret]
\* an exception left the service function
Raise(err) == [Pending EXCEPT !.st = "raised", !.err = err]
\* the handler returned JSONResponse({"status": "ok", "updated": updated})
JSONResponse(updated) ==
    [Pending EXCEPT !.st = "returned", !.http = 200, !.updated = updated]
\* the handler raised HTTPException(status_code, detail)
HTTPException(code, detail) ==
    [Pending EXCEPT !.st = "raised", !.http = code, !.detail = detail,
                    !.err = [kind |-> "HTTPException", src |-> "", code |-> code]]
\* any other exception leaving the handler: the framework answers 500
Unhandled(err) == [Pending EXCEPT !.st = "raised", !.http = 500, !.err = err]

NoExisting == [some |-> FALSE, doc |-> EmptyDict]
Existing(doc) == [some |-> TRUE, doc |-> doc]

\* A remote call as logged: method, target id, JSON body, the status answered
\* (0 when the transport failed) and, for a lookup, the documents returned.
Call(m, id, body, code, n) ==
    [m |-> m, id |-> id, body |-> body, code |-> code, n |-> n]

-----------------------------------------------------------------------------
(* app/utils/telegram.py *)

TG_TOKEN == "bot-token"

\* _compute_hash: HMAC-SHA256 under the key derived from tg_token, taken as a
\* perfect MAC: the signature names the key and the signed text.
_compute_hash(data_check_string) == [key |-> TG_TOKEN, data |-> data_check_string]

\* init_data: [present, hasHash, hash, data, user, userId]; hash is the
\* signature received, data the canonical text of the remaining pairs.
\* The result is "" when accepted, the detail of the 403 when refused, and
\* "TypeError" when hmac.compare_digest (line 30) is given a received hash
\* with a non-ASCII character, which it does not compare but raises on.
NonAsciiHash == [key |-> "non-ascii", data |-> ""]

verify_init_data(init_data, allowed_ids) ==
    IF ~init_data.present THEN "Missing init data"
    ELSE IF ~init_data.hasHash THEN "Missing signature"
    ELSE IF init_data.hash = NonAsciiHash THEN "TypeError"
    ELSE IF init_data.hash # _compute_hash(init_data.data) THEN "Invalid signature"
    ELSE IF init_data.user = "absent" THEN "Missing user info"
    ELSE IF init_data.user = "badjson" THEN "Invalid user info"
    ELSE IF allowed_ids = {} \/ init_data.userId \notin allowed_ids
         THEN "User is not allowed"
    ELSE ""

-----------------------------------------------------------------------------
(* The remote store: what it answers and what the answer means for its data *)

\* An answer with a status; a transport failure before the request reached
\* the store; a timeout after the store acted on it.  The last two raise in
\* the client call itself.
Status(code, body) == [kind |-> "status", code |-> code, body |-> body]
Transport == [kind |-> "transport", code |-> 0, body |-> "empty"]
Timeout == [kind |-> "timeout", code |-> 0, body |-> "empty"]

NoResponse(r) == r.kind # "status"

IsSuccess(code) == code >= 200 /\ code <= 299

WithId(id) == {d \in store : Get(d, "_id") = id}
WithClientId(cid) == {d \in store : Get(d, "clientId") = cid}

GetResponses == {Status(200, "json"), Status(500, "text"), Transport}

PutResponses(id) ==
    {Transport, Status(500, "text")}
    \cup (IF version = "new" /\ WithId(id) # {}
          THEN {Status(200, "json"), Status(200, "empty"), Timeout}
          ELSE {Status(404, "text")})

DeleteResponses(id) ==
    {Transport, Status(500, "text")}
    \cup (IF WithId(id) # {}
          THEN {Status(200, "json"), Status(204, "empty"), Timeout}
          ELSE {Status(404, "text")})

PostResponses ==
    {Transport, Timeout, Status(400, "text"), Status(500, "text"),
     Status(200, "json"), Status(200, "empty"), Status(200, "text")}

\* partial modify by id
StorePut(id, body) ==
    {IF Get(d, "_id") = id THEN DictUpdate(d, body) ELSE d : d \in store}

StoreDelete(id) == store \ WithId(id)

FreshId == Str(<<Tok("N"), NumTok(nextId, 0)>>)

\* insert of one document: the store assigns the id
StorePost(doc) == store \cup {DictUpdate(doc, [k \in {"_id"} |-> FreshId])}

\* The store acted on a request when it answers 2xx, or when the answer
\* was lost to a timeout.
Acted(r) == r.kind = "timeout" \/ (r.kind = "status" /\ IsSuccess(r.code))
PutEffect(r, id, body) == IF Acted(r) THEN StorePut(id, body) ELSE store
DeleteEffect(r, id) == IF Acted(r) THEN StoreDelete(id) ELSE store
PostEffect(r, doc) == IF Acted(r) THEN StorePost(doc) ELSE store

-----------------------------------------------------------------------------
(* app/services/nightscout.py: update_treatment *)

\* httpx Response.raise_for_status raises unless the status is 2xx
RaisesForStatus(code) == ~IsSuccess(code)

PutReraisesOnlyWithoutExisting(code, ex) == code # 404 /\ ~ex.some

PutReraisesOnlyNotFound(code, ex) == code = 404 /\ ~ex.some

\* line 141: `if exc.response.status_code != 404 or existing is None: raise`
PutReraises(code, ex) == code # 404 \/ ~ex.some

\* lines 150-151: `if status_code not in {200, 404}: raise_for_status()`
DeleteRaises(code) == code \notin {200, 404} /\ RaisesForStatus(code)

InsertDocumentPatchOnly(ex, pt) == DictPop(pt, "_id")

InsertDocumentExistingWins(ex, pt) == DictPop(DictUpdate(pt, ex.doc), "_id")

\* lines 153-157: existing.copy().update(patch), then pop("_id")
InsertDocument(ex, pt) == DictPop(DictUpdate(ex.doc, pt), "_id")

\* lines 178-179: existing.copy(), then pop("_id")
RestoreDocument(ex) == DictPop(ex.doc, "_id")

RestoreOutcomeRestoreErrorWins(insert_error, restore_response) ==
    IF restore_response.kind = "status" /\ ~IsSuccess(restore_response.code)
    THEN Raise(HttpStatusError("POST", restore_response.code))
    ELSE Raise(insert_error)

RestoreOutcomeNoReraise(insert_error, restore_response) == Return("status_ok")

\* lines 180-191: the restore's own failure is caught and logged; the bare
\* `raise` re-raises the recreate error whatever the restore answered
RestoreOutcome(insert_error, restore_response) == Raise(insert_error)

\* lines 193-199: what a successful recreate returns
FallbackReturn(body) ==
    CASE body = "empty" -> Return("status_ok")
      [] body = "json" -> Return("json_body")
      [] OTHER -> Return("status_text")

\* lines 131-133, 201: a 2xx PUT returns response.json(), which raises on a
\* body that is not JSON
PutReturn(body) ==
    IF body = "json" THEN Return("json_body") ELSE Raise(JSONDecodeError("PUT"))

\* What the caller of update_treatment makes of its outcome: the handler
\* (main.py lines 176-177) answers updated:true or lets the exception through.
ToCaller(who, res) ==
    IF who = "handler"
    THEN (IF res.st = "returned" THEN JSONResponse(TRUE) ELSE Unhandled(res.err))
    ELSE res

Log(p, m, id, body, r, n) ==
    [calls EXCEPT ![p] = Append(@, Call(m, id, body, r.code, n))]

Finish(p, res) ==
    /\ pc' = [pc EXCEPT ![p] = "done"]
    /\ result' = [result EXCEPT ![p] = ToCaller(caller[p], res)]

\* A caller invokes update_treatment(treatment_id, patch, existing) directly.
ServiceCall(p, id, pt, ex) ==
    /\ pc[p] = "idle"
    /\ budget[p] > 0
    /\ budget' = [budget EXCEPT ![p] = @ - 1]
    /\ pc' = [pc EXCEPT ![p] = "put"]
    /\ caller' = [caller EXCEPT ![p] = "service"]
    /\ tid' = [tid EXCEPT ![p] = id]
    /\ patch' = [patch EXCEPT ![p] = pt]
    /\ existing' = [existing EXCEPT ![p] = ex]
    /\ calls' = [calls EXCEPT ![p] = <<>>]
    /\ result' = [result EXCEPT ![p] = Pending]
    /\ pending' = [pending EXCEPT ![p] = NoErr]
    /\ UNCHANGED <<store, nextId, version, settings, req, record>>
    /\ UNCHANGED apartvars

\* Lines 130-142 and 201: the PUT and what follows its response.
Put(p) ==
    /\ pc[p] = "put"
    /\ \E r \in PutResponses(tid[p]) :
        /\ calls' = Log(p, "PUT", tid[p], patch[p], r, 0)
        /\ IF NoResponse(r)
           THEN /\ Finish(p, Raise(TransportError("PUT")))
                /\ store' = PutEffect(r, tid[p], patch[p])
           ELSE IF ~RaisesForStatus(r.code)
           THEN /\ store' = PutEffect(r, tid[p], patch[p])
                /\ Finish(p, PutReturn(r.body))
           ELSE IF PutReraises(r.code, existing[p])
           THEN /\ Finish(p, Raise(HttpStatusError("PUT", r.code)))
                /\ UNCHANGED store
           ELSE /\ pc' = [pc EXCEPT ![p] = "delete"]
                /\ UNCHANGED <<store, result>>
    /\ UNCHANGED <<nextId, version, settings, caller, req, tid, record, patch,
                   existing, pending, budget>>
    /\ UNCHANGED apartvars

\* Lines 144-151: the DELETE of the recreate sequence.
Delete(p) ==
    /\ pc[p] = "delete"
    /\ \E r \in DeleteResponses(tid[p]) :
        /\ calls' = Log(p, "DELETE", tid[p], EmptyDict, r, 0)
        /\ IF NoResponse(r)
           THEN /\ Finish(p, Raise(TransportError("DELETE")))
                /\ store' = DeleteEffect(r, tid[p])
           ELSE /\ store' = DeleteEffect(r, tid[p])
                /\ IF DeleteRaises(r.code)
                   THEN Finish(p, Raise(HttpStatusError("DELETE", r.code)))
                   ELSE /\ pc' = [pc EXCEPT ![p] = "insert"]
                        /\ UNCHANGED result
    /\ UNCHANGED <<nextId, version, settings, caller, req, tid, record, patch,
                   existing, pending, budget>>
    /\ UNCHANGED apartvars

\* Lines 153-176 and 193-199: the recreate POST.
Insert(p) ==
    /\ pc[p] = "insert"
    /\ \E r \in PostResponses :
        LET doc == InsertDocument(existing[p], patch[p]) IN
        /\ calls' = Log(p, "POST", None, doc, r, 0)
        /\ IF NoResponse(r)
           THEN /\ Finish(p, Raise(TransportError("POST")))
                /\ store' = PostEffect(r, doc)
                /\ nextId' = IF Acted(r) THEN nextId + 1 ELSE nextId
                /\ UNCHANGED pending
           ELSE IF ~RaisesForStatus(r.code)
           THEN /\ store' = PostEffect(r, doc)
                /\ nextId' = nextId + 1
                /\ Finish(p, FallbackReturn(r.body))
                /\ UNCHANGED pending
           ELSE /\ pending' = [pending EXCEPT ![p] = HttpStatusError("POST", r.code)]
                /\ pc' = [pc EXCEPT ![p] = "restore"]
                /\ UNCHANGED <<store, nextId, result>>
    /\ UNCHANGED <<version, settings, caller, req, tid, record, patch,
                   existing, budget>>
    /\ UNCHANGED apartvars

\* Lines 178-191: the best-effort restore POST, then the bare `raise` of the
\* recreate error.
Restore(p) ==
    /\ pc[p] = "restore"
    /\ \E r \in PostResponses :
        LET doc == RestoreDocument(existing[p]) IN
        /\ calls' = Log(p, "POST", None, doc, r, 0)
        /\ store' = PostEffect(r, doc)
        /\ nextId' = IF Acted(r) THEN nextId + 1 ELSE nextId
        /\ Finish(p, RestoreOutcome(pending[p], r))
    /\ UNCHANGED <<version, settings, caller, req, tid, record, patch,
                   existing, pending, budget>>
    /\ UNCHANGED apartvars

-----------------------------------------------------------------------------
(* app/main.py: PUT /api/treatment *)

\* The signed payload: signed under `key` over the text `signed`, carrying
\* the text `data` and the user field.
InitData(key, signed, data, user, userId) ==
    [present |-> TRUE, hasHash |-> TRUE, hash |-> [key |-> key, data |-> signed],
     data |-> data, user |-> user, userId |-> userId]

NoInitData ==
    [present |-> FALSE, hasHash |-> FALSE, hash |-> [key |-> "", data |-> ""],
     data |-> "", user |-> "absent", userId |-> 0]

NoRequest ==
    [init_data |-> NoInitData, id |-> None, cid |-> None, eventType |-> None,
     insulin |-> None, carbs |-> None, calories |-> None, protein |-> None,
     meal |-> None, photoUrl |-> None]

\* What the endpoint answers when verify_init_data does not accept.
Refusal(refused) ==
    IF refused = "TypeError" THEN Unhandled(TypeError("compare_digest"))
    ELSE HTTPException(403, refused)

\* `a or b`
Or(a, b) == IF Truthy(a) THEN a ELSE b

TargetIdOfCaller(rec, treatment_id) == treatment_id

\* Lines 124 and 175: `record.get("_id") or treatment_id`
TargetId(rec, treatment_id) == Or(Get(rec, "_id"), treatment_id)

Stopped(res, treatment_id) ==
    [pc |-> "done", result |-> res, tid |-> treatment_id, patch |-> EmptyDict]

\* Lines 172-176: no-op, or the update call on the record's own id
AfterPatch(rec, treatment_id, cp) ==
    IF cp.raised THEN Stopped(Unhandled(TypeError("apply_meta_updates")), treatment_id)
    ELSE IF cp.patch = EmptyDict THEN Stopped(JSONResponse(FALSE), treatment_id)
    ELSE [pc |-> "put", result |-> Pending,
          tid |-> TargetId(rec, treatment_id), patch |-> cp.patch]

\* Lines 128-170: validation, then the patch
AfterParse(rec, treatment_id, vals) ==
    IF ~vals.ok THEN Stopped(HTTPException(400, "validation"), treatment_id)
    ELSE AfterPatch(rec, treatment_id, ComputePatch(rec, vals))

\* Lines 128-177 once a record is found: [pc, result, tid, patch].
AfterLookup(rec, treatment_id, r) ==
    AfterParse(rec, treatment_id, ParseRequest(r))

Proceed(p, next) ==
    /\ pc' = [pc EXCEPT ![p] = next.pc]
    /\ result' = [result EXCEPT ![p] = next.result]
    /\ tid' = [tid EXCEPT ![p] = next.tid]
    /\ patch' = [patch EXCEPT ![p] = next.patch]

Stop(p, res) ==
    /\ pc' = [pc EXCEPT ![p] = "done"]
    /\ result' = [result EXCEPT ![p] = res]
    /\ UNCHANGED <<tid, patch, record>>

\* Line 118: the request arrives and its signature is verified.
HandlerStart(p, r) ==
    /\ pc[p] = "idle"
    /\ budget[p] > 0
    /\ budget' = [budget EXCEPT ![p] = @ - 1]
    /\ caller' = [caller EXCEPT ![p] = "handler"]
    /\ req' = [req EXCEPT ![p] = r]
    /\ tid' = [tid EXCEPT ![p] = r.id]
    /\ record' = [record EXCEPT ![p] = NoExisting]
    /\ patch' = [patch EXCEPT ![p] = EmptyDict]
    /\ existing' = [existing EXCEPT ![p] = NoExisting]
    /\ calls' = [calls EXCEPT ![p] = <<>>]
    /\ pending' = [pending EXCEPT ![p] = NoErr]
    /\ LET refused == verify_init_data(r.init_data, settings.allowed_user_ids) IN
       IF refused # ""
       THEN /\ pc' = [pc EXCEPT ![p] = "done"]
            /\ result' = [result EXCEPT ![p] = Refusal(refused)]
       ELSE /\ pc' = [pc EXCEPT ![p] = "fetch_id"]
            /\ result' = [result EXCEPT ![p] = Pending]
    /\ UNCHANGED <<store, nextId, version, settings>>
    /\ UNCHANGED apartvars

\* Lines 120-126 (first lookup) and, when it finds the record, 128-175.
FetchById(p) ==
    /\ pc[p] = "fetch_id"
    /\ \E r \in GetResponses :
        IF NoResponse(r) \/ RaisesForStatus(r.code)
        THEN /\ calls' = Log(p, "GET_ID", tid[p], EmptyDict, r, 0)
             /\ Stop(p, Unhandled(IF NoResponse(r) THEN TransportError("GET")
                                  ELSE HttpStatusError("GET", r.code)))
        ELSE /\ calls' = Log(p, "GET_ID", tid[p], EmptyDict, r,
                             Cardinality(WithId(tid[p])))
             /\ IF WithId(tid[p]) # {}
                THEN \E rec \in WithId(tid[p]) :
                        /\ record' = [record EXCEPT ![p] = Existing(rec)]
                        /\ Proceed(p, AfterLookup(rec, tid[p], req[p]))
                ELSE IF Truthy(req[p].cid)
                THEN /\ pc' = [pc EXCEPT ![p] = "fetch_cid"]
                     /\ UNCHANGED <<result, tid, patch, record>>
                ELSE Stop(p, HTTPException(404, "Treatment not found"))
    /\ UNCHANGED <<store, nextId, version, settings, caller, req, existing,
                   pending, budget>>
    /\ UNCHANGED apartvars

\* Lines 122-126 (client-id lookup) and, when it finds the record, 128-175.
FetchByCid(p) ==
    /\ pc[p] = "fetch_cid"
    /\ \E r \in GetResponses :
        IF NoResponse(r) \/ RaisesForStatus(r.code)
        THEN /\ calls' = Log(p, "GET_CID", req[p].cid, EmptyDict, r, 0)
             /\ Stop(p, Unhandled(IF NoResponse(r) THEN TransportError("GET")
                                  ELSE HttpStatusError("GET", r.code)))
        ELSE /\ calls' = Log(p, "GET_CID", req[p].cid, EmptyDict, r,
                             Cardinality(WithClientId(req[p].cid)))
             /\ IF WithClientId(req[p].cid) # {}
                THEN \E rec \in WithClientId(req[p].cid) :
                        /\ record' = [record EXCEPT ![p] = Existing(rec)]
                        /\ Proceed(p, AfterLookup(rec, TargetId(rec, tid[p]), req[p]))
                ELSE Stop(p, HTTPException(404, "Treatment not found"))
    /\ UNCHANGED <<store, nextId, version, settings, caller, req, existing,
                   pending, budget>>
    /\ UNCHANGED apartvars

\* GET /api/treatment, line 41: the request arrives and is verified.
GetTreatmentStart(p, r) ==
    /\ pc[p] = "idle"
    /\ budget[p] > 0
    /\ budget' = [budget EXCEPT ![p] = @ - 1]
    /\ caller' = [caller EXCEPT ![p] = "get_treatment"]
    /\ req' = [req EXCEPT ![p] = r]
    /\ calls' = [calls EXCEPT ![p] = <<>>]
    /\ LET refused == verify_init_data(r.init_data, settings.allowed_user_ids) IN
       IF refused # ""
       THEN /\ pc' = [pc EXCEPT ![p] = "done"]
            /\ result' = [result EXCEPT ![p] = Refusal(refused)]
       ELSE /\ pc' = [pc EXCEPT ![p] = "get_cid"]
            /\ result' = [result EXCEPT ![p] = Pending]
    /\ UNCHANGED <<store, nextId, version, settings, tid, record, patch,
                   existing, pending>>
    /\ UNCHANGED apartvars

\* Lines 46-58: the response is built from the record and its decoded
\* metadata; `record.get(k) or meta.get(k)` asks meta only for a falsy field,
\* and a decoded value that is no dict has no get.
MetaFallbackKeys == {"calories_kcal", "protein_g", "meal", "photoUrl"}

TreatmentResponse(rec) ==
    IF /\ parse_meta(Get(rec, "notes")).kind # "dict"
       /\ \E k \in MetaFallbackKeys : ~Truthy(Get(rec, k))
    THEN Unhandled(TypeError("get_treatment"))
    ELSE [Pending EXCEPT !.st = "returned", !.http = 200, !.ret = "treatment"]

\* Lines 42-58: the lookup by client id and the answer.
GetTreatmentFetch(p) ==
    /\ pc[p] = "get_cid"
    /\ \E r \in GetResponses :
        IF NoResponse(r) \/ RaisesForStatus(r.code)
        THEN /\ calls' = Log(p, "GET_CID", req[p].cid, EmptyDict, r, 0)
             /\ Stop(p, Unhandled(IF NoResponse(r) THEN TransportError("GET")
                                  ELSE HttpStatusError("GET", r.code)))
        ELSE /\ calls' = Log(p, "GET_CID", req[p].cid, EmptyDict, r,
                             Cardinality(WithClientId(req[p].cid)))
             /\ IF WithClientId(req[p].cid) # {}
                THEN \E rec \in WithClientId(req[p].cid) :
                        /\ pc' = [pc EXCEPT ![p] = "done"]
                        /\ result' = [result EXCEPT ![p] = TreatmentResponse(rec)]
                        /\ record' = [record EXCEPT ![p] = Existing(rec)]
                        /\ UNCHANGED <<tid, patch>>
                ELSE Stop(p, HTTPException(404, "Treatment not found"))
    /\ UNCHANGED <<store, nextId, version, settings, caller, req, existing,
                   pending, budget>>
    /\ UNCHANGED apartvars

\* POST /api/upload, lines 190-216: verified, then the type and the size of
\* the image are checked and the file is written under media_root; the
\* handler talks to no remote store.
ALLOWED_CONTENT_TYPES == {"image/jpeg", "image/png"}

UploadOutcome(refused, content_type, too_large) ==
    IF refused # "" THEN Refusal(refused)
    ELSE IF content_type \notin ALLOWED_CONTENT_TYPES
        THEN HTTPException(400, "Unsupported file type")
    ELSE IF too_large THEN HTTPException(413, "File too large")
    ELSE [Pending EXCEPT !.st = "returned", !.http = 200, !.ret = "url"]

UploadImage(p, r, content_type, too_large) ==
    /\ pc[p] = "idle"
    /\ budget[p] > 0
    /\ budget' = [budget EXCEPT ![p] = @ - 1]
    /\ caller' = [caller EXCEPT ![p] = "upload_image"]
    /\ req' = [req EXCEPT ![p] = r]
    /\ calls' = [calls EXCEPT ![p] = <<>>]
    /\ pc' = [pc EXCEPT ![p] = "done"]
    /\ result' = [result EXCEPT ![p] =
          UploadOutcome(verify_init_data(r.init_data, settings.allowed_user_ids),
                        content_type, too_large)]
    /\ UNCHANGED <<store, nextId, version, settings, tid, record, patch,
                   existing, pending>>
    /\ UNCHANGED apartvars

\* The caller has its answer; the process may start another call.
Finished(p) ==
    /\ pc[p] = "done"
    /\ budget[p] > 0
    /\ pc' = [pc EXCEPT ![p] = "idle"]
    /\ caller' = [caller EXCEPT ![p] = "none"]
    /\ req' = [req EXCEPT ![p] = NoRequest]
    /\ tid' = [tid EXCEPT ![p] = None]
    /\ record' = [record EXCEPT ![p] = NoExisting]
    /\ patch' = [patch EXCEPT ![p] = EmptyDict]
    /\ existing' = [existing EXCEPT ![p] = NoExisting]
    /\ pending' = [pending EXCEPT ![p] = NoErr]
    /\ result' = [result EXCEPT ![p] = Pending]
    /\ calls' = [calls EXCEPT ![p] = <<>>]
    /\ UNCHANGED <<store, nextId, version, settings, budget>>
    /\ UNCHANGED apartvars

-----------------------------------------------------------------------------
(* Inputs *)

MaxCalls == 2
MaxEncodes == 2

ALICE == 7
MALLORY == 8

IdA == Text("A")
IdB == Text("B")
Cid1 == Text("c1")
Cid2 == Text("c2")

NumText(w, u) == Str(<<NumTok(w, u)>>)

Meta(pairs) == Str(META_PREFIX \o JsonDumps(pairs))
Pair(key, value) == [k |-> key, v |-> value]

NotesEmpty == EmptyStr
NotesForeign == Str(<<Tok("lunch"), SPACE, Tok("[alice-meta]")>>)
NotesMeta == Meta(<<Pair("ver", Num(1, 0)), Pair("insulin_u", Num(2, 0))>>)
NotesMetaOne == Meta(<<Pair("insulin_u", Num(2, 0))>>)
NotesMetaEmpty == Str(META_PREFIX \o <<LBRACE, RBRACE>>)
NotesMetaList == Str(META_PREFIX \o <<LBRACK, NumTok(1, 0), RBRACK>>)
NotesMetaBroken == Str(META_PREFIX \o <<LBRACE, QUOTE, Tok("ver")>>)
NotesMetaNumber == Str(META_PREFIX \o <<NumTok(5, 0)>>)
NotesMetaCalories ==
    Meta(<<Pair("ver", Num(1, 0)), Pair("calories_kcal", Num(500, 0))>>)

\* The record the store holds at the start, without and with a notes field.
BaseDoc ==
    [k \in {"_id", "clientId", "eventType", "insulin", "carbs"} |->
        CASE k = "_id" -> IdA
          [] k = "clientId" -> Cid1
          [] k = "eventType" -> Text("Meal Bolus")
          [] k = "insulin" -> Num(2, 0)
          [] OTHER -> Num(30, 0)]

DocWithNotes(notes) == DictUpdate(BaseDoc, [k \in {"notes"} |-> notes])

InitialDocs ==
    {BaseDoc} \cup {DocWithNotes(n) : n \in {NotesEmpty, NotesForeign, NotesMeta,
                                            NotesMetaCalories}}

ValidInit == InitData(TG_TOKEN, "d1", "d1", "json", ALICE)

\* A payload whose hash parameter carries a non-ASCII character.
NonAsciiInit == [ValidInit EXCEPT !.hash = NonAsciiHash]

\* A request that asks for exactly what BaseDoc holds.
SameRequest ==
    [init_data |-> ValidInit, id |-> IdA, cid |-> None,
     eventType |-> Text("Meal Bolus"),
     insulin |-> NumText(2, 0), carbs |-> NumText(30, 0),
     calories |-> None, protein |-> None, meal |-> None, photoUrl |-> None]

Requests ==
    {SameRequest,
     [SameRequest EXCEPT !.insulin = NumText(2, 1)],
     [SameRequest EXCEPT !.insulin = NumText(3, 500000)],
     [SameRequest EXCEPT !.insulin = None],
     [SameRequest EXCEPT !.insulin = NumText(51, 0)],
     [SameRequest EXCEPT !.carbs = NumText(12, 700000)],
     [SameRequest EXCEPT !.carbs = NumText(30, 2)],
     [SameRequest EXCEPT !.calories = NumText(500, 0)],
     [SameRequest EXCEPT !.meal = Str(<<SPACE, Tok("pasta"), SPACE>>)],
     [SameRequest EXCEPT !.eventType = Text("none")],
     [SameRequest EXCEPT !.eventType = Text("NONE")],
     [SameRequest EXCEPT !.eventType = Text("Carb Correction")],
     [SameRequest EXCEPT !.eventType = EmptyStr],
     [SameRequest EXCEPT !.eventType = Text("Snack")],
     [SameRequest EXCEPT !.id = IdB, !.cid = Cid1, !.insulin = NumText(3, 500000)],
     [SameRequest EXCEPT !.id = IdB, !.cid = Cid2],
     [SameRequest EXCEPT !.id = IdB],
     [SameRequest EXCEPT !.init_data = InitData("other", "d1", "d1", "json", ALICE)],
     [SameRequest EXCEPT !.init_data = InitData(TG_TOKEN, "d1", "d1", "json", MALLORY)],
     [SameRequest EXCEPT !.init_data = NonAsciiInit]}

\* Requests of the two other endpoints: initData, and cid for the lookup.
InitDatas ==
    {ValidInit,
     InitData("other", "d1", "d1", "json", ALICE),
     InitData(TG_TOKEN, "d1", "d2", "json", ALICE),
     InitData(TG_TOKEN, "d1", "d1", "json", MALLORY),
     NonAsciiInit}

GetRequests ==
    {[NoRequest EXCEPT !.init_data = i, !.cid = c] :
        i \in InitDatas, c \in {Cid1, Cid2}}

UploadRequests == {[NoRequest EXCEPT !.init_data = i] : i \in InitDatas}

\* What a direct caller of update_treatment passes.
ServicePatches ==
    {[k \in {"insulin"} |-> Num(3, 500000)],
     [k \in {"insulin", "notes"} |->
        IF k = "insulin" THEN Num(3, 500000) ELSE Text("edited")]}

\* The `existing` snapshot: none, the record as the store holds it now, or
\* the record as the caller read it before it went away.
Snapshots(id) ==
    {NoExisting} \cup {Existing(d) : d \in WithId(id)}
    \cup (IF WithId(id) = {} THEN {Existing(BaseDoc)} ELSE {})

-----------------------------------------------------------------------------
(* The system: handler requests and direct service calls against the store *)

ZeroStats ==
    [entries |-> 0, insulin |-> Num(0, 0), carbs |-> Num(0, 0),
     calories |-> Num(0, 0)]

InitAggIdle ==
    /\ atreat = <<>>
    /\ ai = 0
    /\ atotals = ZeroStats
    /\ adaily = <<>>
    /\ aout = "pending"

NoPage == [skip |-> 0, kind |-> "none", len |-> 0]

\* self._offset: None, or an update_id
OffsetNone == [some |-> FALSE, v |-> 0]
OffsetOf(n) == [some |-> TRUE, v |-> n]

InitBotIdle ==
    /\ bpc = "off"
    /\ boffset = OffsetNone
    /\ bbatch = <<>>
    /\ bcur = 0
    /\ bhanded = <<>>
    /\ braised = {}
    /\ bend = ""
    /\ tqueue = {}
    /\ tnext = 1

InitFetchIdle ==
    /\ fpc = "idle"
    /\ fpage = 0
    /\ frows = 0
    /\ fskip = 0
    /\ fresults = 0
    /\ fout = "pending"
    /\ fgets = 0
    /\ flast = NoPage

InitCodecIdle ==
    /\ cstart = None
    /\ ckeys = {}
    /\ cnotes = None
    /\ cprev = None
    /\ cupd = <<>>
    /\ cout = Returned(None)
    /\ ccount = 0

InitCalls ==
    /\ pc = [p \in Procs |-> "idle"]
    /\ caller = [p \in Procs |-> "none"]
    /\ req = [p \in Procs |-> NoRequest]
    /\ tid = [p \in Procs |-> None]
    /\ record = [p \in Procs |-> NoExisting]
    /\ patch = [p \in Procs |-> EmptyDict]
    /\ existing = [p \in Procs |-> NoExisting]
    /\ pending = [p \in Procs |-> NoErr]
    /\ result = [p \in Procs |-> Pending]
    /\ calls = [p \in Procs |-> <<>>]

Init ==
    /\ \E d \in InitialDocs : store = {d}
    /\ nextId = 1
    /\ version \in {"new", "old"}
    /\ settings \in {[allowed_user_ids |-> ids] : ids \in {{}, {ALICE}}}
    /\ InitCalls
    /\ InitBotIdle
    /\ budget = [p \in Procs |-> IF p = "p1" THEN MaxCalls ELSE 0]
    /\ InitCodecIdle
    /\ InitFetchIdle
    /\ InitAggIdle

Next ==
    \E p \in Procs :
        \/ \E r \in Requests : HandlerStart(p, r)
        \/ FetchById(p)
        \/ FetchByCid(p)
        \/ \E pt \in ServicePatches : \E ex \in Snapshots(IdA) :
              ServiceCall(p, IdA, pt, ex)
        \/ Put(p)
        \/ Delete(p)
        \/ Insert(p)
        \/ Restore(p)
        \/ \E r \in GetRequests : GetTreatmentStart(p, r)
        \/ GetTreatmentFetch(p)
        \/ \E r \in UploadRequests :
              \E ct \in {"image/jpeg", "image/gif"} : \E big \in BOOLEAN :
                 UploadImage(p, r, ct, big)
        \/ Finished(p)

Spec == Init /\ [][Next]_vars

-----------------------------------------------------------------------------
(* Two callers of update_treatment at once, each with the record it read,   *)
(* against a store that answers 404 to the modify                           *)

RaceCalls == 2

InitRace ==
    /\ store = {BaseDoc}
    /\ nextId = 1
    /\ version = "old"
    /\ settings = [allowed_user_ids |-> {}]
    /\ InitCalls
    /\ InitBotIdle
    /\ budget = [p \in Procs |-> RaceCalls]
    /\ InitCodecIdle
    /\ InitFetchIdle
    /\ InitAggIdle

NextRace ==
    \E p \in Procs :
        \/ \E pt \in ServicePatches : \E d \in WithId(IdA) :
              ServiceCall(p, IdA, pt, Existing(d))
        \/ Put(p)
        \/ Delete(p)
        \/ Insert(p)
        \/ Restore(p)
        \/ Finished(p)

SpecRace == InitRace /\ [][NextRace]_vars

-----------------------------------------------------------------------------
(* Two PUT /api/treatment requests at once for the record A, each changing  *)
(* another field, against a store that modifies in place                    *)

InsulinRequest == [SameRequest EXCEPT !.insulin = NumText(3, 500000)]
CarbsRequest == [SameRequest EXCEPT !.carbs = NumText(45, 0)]
HandlerRaceRequests == [p1 |-> InsulinRequest, p2 |-> CarbsRequest]

InitHandlerRace ==
    /\ \E n \in {NotesEmpty, NotesMeta} : store = {DocWithNotes(n)}
    /\ nextId = 1
    /\ version = "new"
    /\ settings = [allowed_user_ids |-> {ALICE}]
    /\ InitCalls
    /\ InitBotIdle
    /\ budget = [p \in Procs |-> RaceCalls]
    /\ InitCodecIdle
    /\ InitFetchIdle
    /\ InitAggIdle

NextHandlerRace ==
    \E p \in Procs :
        \/ HandlerStart(p, HandlerRaceRequests[p])
        \/ FetchById(p)
        \/ Put(p)
        \/ Finished(p)

SpecHandlerRace == InitHandlerRace /\ [][NextHandlerRace]_vars

-----------------------------------------------------------------------------
(* The codec alone: encode applied, call after call, to notes and updates *)

CodecNotes ==
    {None, NotesEmpty, NotesForeign, NotesMeta, NotesMetaOne, NotesMetaEmpty,
     NotesMetaList, NotesMetaBroken, NotesMetaNumber}

CodecUpdates ==
    {<<>>,
     <<Pair("insulin_u", Num(3, 500000))>>,
     <<Pair("insulin_u", None)>>,
     <<Pair("carbs_g", Num(12, 0)), Pair("meal", Text("pasta"))>>,
     <<Pair("insulin_u", None), Pair("meal", EmptyStr)>>,
     <<Pair("ver", None)>>}

Encode(updates) ==
    /\ ccount < MaxEncodes
    /\ ~cout.raised
    /\ cprev' = cnotes
    /\ cupd' = updates
    /\ cout' = apply_meta_updates(cnotes, updates)
    /\ cnotes' = IF cout'.raised THEN cnotes ELSE cout'.notes
    /\ ccount' = ccount + 1
    /\ ckeys' = ckeys \cup {updates[i].k : i \in 1..Len(updates)}
    /\ UNCHANGED cstart
    /\ UNCHANGED <<sysvars, fetchvars, aggvars, botvars>>

InitCodec ==
    /\ store = {}
    /\ nextId = 1
    /\ version = "new"
    /\ settings = [allowed_user_ids |-> {}]
    /\ InitCalls
    /\ InitBotIdle
    /\ budget = [p \in Procs |-> 0]
    /\ cnotes \in CodecNotes
    /\ cstart = cnotes
    /\ ckeys = {}
    /\ cprev = None
    /\ cupd = <<>>
    /\ cout = Returned(None)
    /\ ccount = 0
    /\ InitFetchIdle
    /\ InitAggIdle

NextCodec == \E updates \in CodecUpdates : Encode(updates)

SpecCodec == InitCodec /\ [][NextCodec]_vars

-----------------------------------------------------------------------------
(* app/services/nightscout.py: fetch_treatments_between, page after page *)

MAX_NIGHTSCOUT_FETCH == 5000

Min(a, b) == IF a <= b THEN a ELSE b

\* What a page request can be answered with: an error, a body that is no
\* list, or a list of rows.
PageResponses == {"error", "not_list", "list"}

\* The rows a store that honours count and skip answers with.
Chunk(rows, skip, count) == Min(count, Max(rows - skip, 0))

\* The lengths of the list a store may answer with: what count and skip ask
\* for, nothing, one row less or one row more than the page size.
ChunkLengths(rows, skip, count) ==
    {Chunk(rows, skip, count), 0, count - 1, count + 1}

SkipUnchanged(skip, n) == skip

\* Line 107: skip += len(chunk)
NextSkip(skip, n) == skip + n

\* Lines 77-91: the call starts; page_size <= 0 raises ValueError.
FetchStart(page_size, rows) ==
    /\ fpc = "idle"
    /\ fpage' = page_size
    /\ frows' = rows
    /\ fskip' = 0
    /\ fresults' = 0
    /\ IF page_size <= 0
       THEN fpc' = "done" /\ fout' = "raised"
       ELSE fpc' = "page" /\ fout' = "pending"
    /\ UNCHANGED <<fgets, flast>>
    /\ UNCHANGED <<sysvars, codecvars, aggvars, botvars>>

\* Lines 94-115: one turn of the loop; the GET is answered with r, a list
\* having n rows.
FetchPage(r, n) ==
    /\ fpc = "page"
    /\ fgets' = fgets + 1
    /\ flast' = [skip |-> fskip, kind |-> r, len |-> IF r = "list" THEN n ELSE 0]
    /\ IF r = "error"
       THEN fpc' = "done" /\ fout' = "raised" /\ UNCHANGED <<fskip, fresults>>
       ELSE IF r = "not_list" \/ n = 0
       THEN fpc' = "done" /\ fout' = "returned" /\ UNCHANGED <<fskip, fresults>>
       ELSE /\ fresults' = fresults + n
            /\ IF n < fpage
               THEN fpc' = "done" /\ fout' = "returned" /\ UNCHANGED fskip
               ELSE /\ fskip' = NextSkip(fskip, n)
                    /\ IF fskip' >= MAX_NIGHTSCOUT_FETCH
                       THEN fpc' = "done" /\ fout' = "returned"
                       ELSE UNCHANGED <<fpc, fout>>
    /\ UNCHANGED <<fpage, frows>>
    /\ UNCHANGED <<sysvars, codecvars, aggvars, botvars>>

PageSizes == {0, 400, 1000, 2500, 3000, 5000, 7000}
RowCounts == {0, 300, 1000, 4999, 5000, 5001, 6500, 12000}

InitFetch ==
    /\ store = {}
    /\ nextId = 1
    /\ version = "new"
    /\ settings = [allowed_user_ids |-> {}]
    /\ InitCalls
    /\ InitBotIdle
    /\ budget = [p \in Procs |-> 0]
    /\ InitCodecIdle
    /\ InitFetchIdle
    /\ InitAggIdle

NextFetch ==
    \/ \E page_size \in PageSizes : \E rows \in RowCounts :
          FetchStart(page_size, rows)
    \/ \E r \in PageResponses : \E n \in ChunkLengths(frows, fskip, fpage) :
          FetchPage(r, n)

SpecFetch == InitFetch /\ [][NextFetch]_vars

-----------------------------------------------------------------------------
(* scripts/telegram_bot.py: _aggregate_treatments, record after record *)

MaxRecords == 2

\* created_at as _parse_created_at reads it: unparseable, or a time of day
\* counted in minutes from 00:00 of day 0 on the clock the text is written
\* in, with that clock's offset from UTC (0 for "Z" or no zone).
NoStamp == [ok |-> FALSE, clock |-> 0, tz |-> 0]
Stamp(clock, tz) == [ok |-> TRUE, clock |-> clock, tz |-> tz]

\* utcOffset: absent, or a number of minutes
NoOffset == [t |-> "none", m |-> 0]
Offset(m) == [t |-> "int", m |-> m]

MINUTES_PER_DAY == 1440

NoDate == [ok |-> FALSE, day |-> 0]

\* _record_local_date: the date part of created_at after utcOffset minutes
\* were added; created_at keeps the zone it was written in.
_record_local_date(rec) ==
    IF ~rec.created.ok THEN NoDate
    ELSE [ok |-> TRUE,
          day |-> (rec.created.clock
                   + (IF rec.utcOffset.t = "int" /\ rec.utcOffset.m # 0
                      THEN rec.utcOffset.m ELSE 0)) \div MINUTES_PER_DAY]

\* One candidate of _pick_number: taken when float(raw) succeeds.
PickOne(raw) ==
    IF raw.t = "num" THEN Parsed(raw)
    ELSE IF raw.t = "str" /\ Strip(raw.z) # <<>> THEN FloatOf(raw)
    ELSE Invalid

_pick_number(first, second) ==
    IF PickOne(first).ok THEN PickOne(first).v
    ELSE IF PickOne(second).ok THEN PickOne(second).v
    ELSE None

NumAdd(a, b) == Num(a.w + b.w + (a.u + b.u) \div Micro, (a.u + b.u) % Micro)

AddPicked(total, picked) == IF picked = None THEN total ELSE NumAdd(total, picked)

\* Lines 124-137 on one stats dict (totals, or the day's).
AddRecord(stats, rec, meta) ==
    [entries |-> stats.entries,
     insulin |-> AddPicked(stats.insulin,
                  _pick_number(rec.insulin, MetaGet(meta, "insulin_u"))),
     carbs |-> AddPicked(stats.carbs,
                  _pick_number(rec.carbs, MetaGet(meta, "carbs_g"))),
     calories |-> AddPicked(stats.calories,
                  _pick_number(rec.calories_kcal, MetaGet(meta, "calories_kcal")))]

OneMoreEntry(stats) == [stats EXCEPT !.entries = @ + 1]

\* daily[day], a defaultdict: a day not seen yet starts from zero
DayStats(daily, day) == IF day \in DOMAIN daily THEN daily[day] ELSE ZeroStats

SetDay(daily, day, stats) ==
    [d \in DOMAIN daily \cup {day} |-> IF d = day THEN stats ELSE daily[d]]

\* Lines 114-137: the loop body for the next record.  meta.get on decoded
\* metadata that is no dict raises after both entry counts were raised.
AggregateRecord(rec, meta, date) ==
    /\ ai' = ai + 1
    /\ IF ~date.ok
       THEN /\ atotals' = OneMoreEntry(atotals)
            /\ UNCHANGED <<adaily, aout>>
       ELSE IF meta.kind # "dict"
       THEN /\ atotals' = OneMoreEntry(atotals)
            /\ adaily' = SetDay(adaily, date.day,
                                OneMoreEntry(DayStats(adaily, date.day)))
            /\ aout' = "raised"
       ELSE /\ atotals' = AddRecord(OneMoreEntry(atotals), rec, meta.d)
            /\ adaily' = SetDay(adaily, date.day,
                    AddRecord(OneMoreEntry(DayStats(adaily, date.day)), rec, meta.d))
            /\ UNCHANGED aout

AggregateNext ==
    /\ aout = "pending"
    /\ ai < Len(atreat)
    /\ AggregateRecord(atreat[ai + 1], parse_meta(atreat[ai + 1].notes),
                       _record_local_date(atreat[ai + 1]))
    /\ UNCHANGED atreat
    /\ UNCHANGED <<sysvars, codecvars, fetchvars, botvars>>

\* Lines 139-140: the loop is over, totals is returned.
AggregateReturn ==
    /\ aout = "pending"
    /\ ai = Len(atreat)
    /\ aout' = "returned"
    /\ UNCHANGED <<atreat, ai, atotals, adaily>>
    /\ UNCHANGED <<sysvars, codecvars, fetchvars, botvars>>

Treatment(created, utcOffset, insulin, carbs, calories_kcal, notes) ==
    [created |-> created, utcOffset |-> utcOffset, insulin |-> insulin,
     carbs |-> carbs, calories_kcal |-> calories_kcal, notes |-> notes]

\* 01:00Z; 23:30Z with utcOffset 180; no created_at; 23:30+03:00 with
\* utcOffset 180; 00:30Z with utcOffset -120 and text carbs; metadata that is
\* a list.
AggTreatments ==
    {Treatment(Stamp(60, 0), NoOffset, Num(2, 0), Num(30, 0), None, None),
     Treatment(Stamp(1410, 0), Offset(180), Num(1, 500000), None, None,
               Meta(<<Pair("ver", Num(1, 0)), Pair("carbs_g", Num(12, 0))>>)),
     Treatment(NoStamp, NoOffset, Num(4, 0), Num(10, 0), Num(100, 0), None),
     Treatment(Stamp(1410, 180), Offset(180), Num(1, 0), None, None, None),
     Treatment(Stamp(30, 0), Offset(-120), None, Str(<<SPACE, NumTok(12, 500000)>>),
               Num(250, 0), NotesForeign),
     Treatment(Stamp(60, 0), NoOffset, Num(2, 0), None, None, NotesMetaList)}

TreatmentLists ==
    UNION {[1..n -> AggTreatments] : n \in 0..MaxRecords}

InitAgg ==
    /\ store = {}
    /\ nextId = 1
    /\ version = "new"
    /\ settings = [allowed_user_ids |-> {}]
    /\ InitCalls
    /\ InitBotIdle
    /\ budget = [p \in Procs |-> 0]
    /\ InitCodecIdle
    /\ InitFetchIdle
    /\ atreat \in TreatmentLists
    /\ ai = 0
    /\ atotals = ZeroStats
    /\ adaily = <<>>
    /\ aout = "pending"

NextAgg == AggregateNext \/ AggregateReturn

SpecAgg == InitAgg /\ [][NextAgg]_vars

-----------------------------------------------------------------------------
(* scripts/telegram_bot.py: SummaryBot.run, the polling loop, and the       *)
(* messaging server it polls                                                *)

MaxUpdates == 3

\* What the server keeps after a getUpdates call: the call confirms, and the
\* server drops, the updates whose update_id is below the offset it carries.
Unconfirmed(queue, offset) ==
    IF offset.some THEN {u \in queue : u >= offset.v} ELSE queue

\* The updates of a set in the order of their update_id.
RECURSIVE Ascending(_)
Ascending(ids) ==
    IF ids = {} THEN <<>>
    ELSE LET least == CHOOSE u \in ids : \A w \in ids : u <= w
         IN <<least>> \o Ascending(ids \ {least})

\* What a getUpdates call can end in (lines 267-277): an exception before
\* the server saw the request ("raises") or after it ("lost"), a payload
\* that is not ok, the list of updates, or the cancellation of the task.
GetUpdatesOutcomes == {"raises", "lost", "not_ok", "ok", "CancelledError"}

\* What _handle_update can end in.
HandlerOutcomes == {"returns", "Exception", "CancelledError"}

\* `except Exception` (lines 252, 261)
CaughtByExcept(exc) == exc = "Exception"

OffsetSame(update_id) == OffsetOf(update_id)

\* Line 259: self._offset = update["update_id"] + 1
NextOffset(update_id) == OffsetOf(update_id + 1)

\* A user sends the bot a message: the server queues an update.
UpdateArrives ==
    /\ bpc # "off"
    /\ tnext <= MaxUpdates
    /\ tqueue' = tqueue \cup {tnext}
    /\ tnext' = tnext + 1
    /\ UNCHANGED <<bpc, boffset, bbatch, bcur, bhanded, braised, bend>>
    /\ UNCHANGED <<sysvars, codecvars, fetchvars, aggvars>>

\* Lines 250-255: one getUpdates call and what run does with its outcome.
GetUpdates(r) ==
    /\ bpc = "poll"
    /\ tqueue' = IF r \in {"ok", "lost"} THEN Unconfirmed(tqueue, boffset) ELSE tqueue
    /\ bbatch' = IF r = "ok" THEN Ascending(tqueue') ELSE <<>>
    /\ IF r \in {"raises", "lost"}
       THEN bpc' = "sleep" /\ UNCHANGED bend
       ELSE IF r = "CancelledError"
       THEN bpc' = "closed" /\ bend' = r
       ELSE /\ bpc' = IF bbatch' = <<>> THEN "poll" ELSE "take"
            /\ UNCHANGED bend
    /\ UNCHANGED <<boffset, bcur, bhanded, braised, tnext>>
    /\ UNCHANGED <<sysvars, codecvars, fetchvars, aggvars>>

\* Lines 254-255: asyncio.sleep(5) is over, or the task is cancelled in it.
Wake(cancelled) ==
    /\ bpc = "sleep"
    /\ IF cancelled
       THEN bpc' = "closed" /\ bend' = "CancelledError"
       ELSE bpc' = "poll" /\ UNCHANGED bend
    /\ UNCHANGED <<boffset, bbatch, bcur, bhanded, braised, tqueue, tnext>>
    /\ UNCHANGED <<sysvars, codecvars, fetchvars, aggvars>>

\* Lines 257-260: the next update of the batch; the offset moves and the
\* handler is called.
TakeUpdate ==
    /\ bpc = "take"
    /\ Len(bhanded) <= MaxUpdates
    /\ bcur' = Head(bbatch)
    /\ bbatch' = Tail(bbatch)
    /\ boffset' = NextOffset(Head(bbatch))
    /\ bhanded' = Append(bhanded, Head(bbatch))
    /\ bpc' = "handle"
    /\ UNCHANGED <<braised, bend, tqueue, tnext>>
    /\ UNCHANGED <<sysvars, codecvars, fetchvars, aggvars>>

\* Lines 260-263: the handler ends; an Exception is logged and the loop
\* goes on, anything else leaves run through its finally.
HandleUpdate(outcome) ==
    /\ bpc = "handle"
    /\ braised' = IF outcome = "returns" THEN braised ELSE braised \cup {bcur}
    /\ IF outcome = "returns" \/ CaughtByExcept(outcome)
       THEN /\ bpc' = IF bbatch = <<>> THEN "poll" ELSE "take"
            /\ UNCHANGED bend
       ELSE bpc' = "closed" /\ bend' = outcome
    /\ UNCHANGED <<boffset, bbatch, bcur, bhanded, tqueue, tnext>>
    /\ UNCHANGED <<sysvars, codecvars, fetchvars, aggvars>>

InitBot ==
    /\ store = {}
    /\ nextId = 1
    /\ version = "new"
    /\ settings = [allowed_user_ids |-> {}]
    /\ InitCalls
    /\ budget = [p \in Procs |-> 0]
    /\ InitCodecIdle
    /\ InitFetchIdle
    /\ InitAggIdle
    /\ bpc = "poll"
    /\ boffset = OffsetNone
    /\ bbatch = <<>>
    /\ bcur = 0
    /\ bhanded = <<>>
    /\ braised = {}
    /\ bend = ""
    /\ tqueue = {}
    /\ tnext = 1

NextBot ==
    \/ UpdateArrives
    \/ \E r \in GetUpdatesOutcomes : GetUpdates(r)
    \/ \E cancelled \in BOOLEAN : Wake(cancelled)
    \/ TakeUpdate
    \/ \E outcome \in HandlerOutcomes : HandleUpdate(outcome)

SpecBot == InitBot /\ [][NextBot]_vars

-----------------------------------------------------------------------------
(* Reading the log of a call *)

NCalls(p) == Len(calls[p])
HasPut(p) == \E i \in 1..NCalls(p) : calls[p][i].m = "PUT"
PutAt(p) == CHOOSE i \in 1..NCalls(p) : calls[p][i].m = "PUT"
Writes(p) == {i \in 1..NCalls(p) : calls[p][i].m \in {"PUT", "DELETE", "POST"}}

\* an error status, as opposed to a 2xx status or a transport failure (code 0)
IsErrorStatus(code) == code >= 400

\* existing with the patch merged over it, the patch winning, without _id
MergedWithoutId(ex, pt) ==
    [k \in ((DOMAIN ex) \cup (DOMAIN pt)) \ {"_id"} |->
        IF k \in DOMAIN pt THEN pt[k] ELSE ex[k]]

WithoutId(doc) == [k \in (DOMAIN doc) \ {"_id"} |-> doc[k]]

-----------------------------------------------------------------------------
(* C1: a 404 PUT with `existing` supplied is followed by a DELETE of the    *)
(* target id; once the delete is answered 200 or 404 the next call is the   *)
(* POST of existing-with-patch-merged minus _id; if that POST is answered   *)
(* 2xx nothing else is called and the call returns.                         *)
C1_RecreateAfterNotFound ==
    \A p \in Procs :
        (HasPut(p) /\ calls[p][PutAt(p)].code = 404 /\ existing[p].some) =>
        LET i == PutAt(p)
            n == NCalls(p)
        IN /\ (n = i => pc[p] = "delete")
           /\ (n > i => calls[p][i + 1].m = "DELETE" /\ calls[p][i + 1].id = tid[p])
           /\ (n > i /\ calls[p][i + 1].code \in {200, 404}) =>
                /\ (n = i + 1 => pc[p] = "insert")
                /\ (n > i + 1 =>
                      /\ calls[p][i + 2].m = "POST"
                      /\ calls[p][i + 2].body =
                            MergedWithoutId(existing[p].doc, patch[p]))
                /\ (n > i + 1 /\ IsSuccess(calls[p][i + 2].code)) =>
                      /\ n = i + 2
                      /\ pc[p] = "done"
                      /\ result[p].st = "returned"

C1_Witness ==
    \E p \in Procs :
        /\ existing[p].some
        /\ NCalls(p) = 3
        /\ calls[p][1].m = "PUT" /\ calls[p][1].code = 404
        /\ calls[p][2].m = "DELETE" /\ calls[p][2].code = 200
        /\ calls[p][3].m = "POST" /\ calls[p][3].code = 200
        /\ calls[p][3].body["insulin"] = Num(3, 500000)
        /\ existing[p].doc["insulin"] = Num(2, 0)
        /\ "_id" \notin DOMAIN calls[p][3].body
        /\ result[p].st = "returned"

Deleted(p) ==
    /\ \E i \in 1..NCalls(p) : calls[p][i].m = "DELETE"
    /\ WithId(tid[p]) = {}

ContentKept(p) ==
    \E d \in store :
        WithoutId(d) \in {MergedWithoutId(existing[p].doc, patch[p]),
                          WithoutId(existing[p].doc)}

UpdateReturned(p) ==
    /\ result[p].st = "returned"
    /\ caller[p] = "handler" => result[p].updated

Patched(d, pt) ==
    \A k \in (DOMAIN pt) \ {"_id"} : k \in DOMAIN d /\ d[k] = pt[k]

C3_NoSilentDelete ==
    \A p \in Procs :
        (pc[p] = "done" /\ HasPut(p)) =>
        /\ (Deleted(p) /\ ~ContentKept(p)) => result[p].st = "raised"
        /\ UpdateReturned(p) => \E d \in store : Patched(d, patch[p])

C3_Witness ==
    \E p \in Procs :
        /\ pc[p] = "done"
        /\ Deleted(p)
        /\ ~ContentKept(p)
        /\ store = {}
        /\ result[p].st = "raised"

(* C4: a PUT answered with a non-2xx status other than 404, or with 404     *)
(* when no `existing` was supplied, ends the call at once with that PUT's   *)
(* error: nothing is called after the PUT.                                  *)
C4_PutErrorPropagates ==
    \A p \in Procs :
        (/\ HasPut(p)
         /\ IsErrorStatus(calls[p][PutAt(p)].code)
         /\ (calls[p][PutAt(p)].code # 404 \/ ~existing[p].some)) =>
        /\ NCalls(p) = PutAt(p)
        /\ pc[p] = "done"
        /\ result[p].st = "raised"
        /\ result[p].err = HttpStatusError("PUT", calls[p][PutAt(p)].code)

C4_Witness ==
    \E p \in Procs :
        /\ existing[p].some
        /\ NCalls(p) = 1
        /\ calls[p][1].m = "PUT" /\ calls[p][1].code = 500
        /\ result[p].err = HttpStatusError("PUT", 500)

(* C5: every delete status other than 200 and 404 ends the call   *)
(* with an error and no POST follows.                                       *)
C5_AnyOtherDeleteStatusFails ==
    \A p \in Procs :
        \A j \in 1..NCalls(p) :
            (/\ calls[p][j].m = "DELETE"
             /\ calls[p][j].code # 0
             /\ calls[p][j].code \notin {200, 404}) =>
            /\ NCalls(p) = j
            /\ pc[p] = "done"
            /\ result[p].st = "raised"

-----------------------------------------------------------------------------
(* C6 as stated: when the handler has resolved a record and the store       *)
(* answers 404 to its PUT, the handler goes on to the DELETE and, when the  *)
(* delete and the recreate POST are accepted, answers updated:true.         *)
C6_HandlerRecreatesOnOldStore ==
    \A p \in Procs :
        (/\ caller[p] = "handler"
         /\ record[p].some
         /\ HasPut(p)
         /\ calls[p][PutAt(p)].code = 404) =>
        /\ NCalls(p) = PutAt(p) => pc[p] = "delete"
        /\ (/\ pc[p] = "done"
            /\ \A i \in Writes(p) :
                  i > PutAt(p) => (calls[p][i].code = 404 \/ IsSuccess(calls[p][i].code))) =>
              /\ result[p] = JSONResponse(TRUE)
              /\ \E i \in Writes(p) : calls[p][i].m = "POST"

(* C7: when every requested value equals the stored one under the equality *)
(* rule, the handler answers status ok with updated:false and no PUT,       *)
(* DELETE or POST is issued.                                                *)
\* |a - b| in millionths for numbers whose whole parts differ by at most 1
Millionths(a, b) ==
    IF NumLeq(a, b) THEN (b.w - a.w) * Micro + (b.u - a.u)
    ELSE (a.w - b.w) * Micro + (a.u - b.u)

\* within the absolute tolerance of one millionth, or within the relative
\* tolerance of one millionth of the larger of the two
WithinTolerance(a, b) ==
    /\ a.w - b.w \in {-1, 0, 1}
    /\ \/ Millionths(a, b) <= 1
       \/ Millionths(a, b) <= Max(a.w, b.w)

EqualUnderRule(stored, requested) ==
    \/ stored = None /\ requested = None
    \/ stored.t = "num" /\ requested.t = "num" /\ WithinTolerance(stored, requested)
    \/ ~(stored.t = "num" /\ requested.t = "num") /\ stored = requested

AllRequestedEqual(p) ==
    /\ ParseRequest(req[p]).ok
    /\ \A f \in PatchFields :
          EqualUnderRule(Get(record[p].doc, f), ParseRequest(req[p])[f])

C7_NoOpMakesNoRemoteWrite ==
    \A p \in Procs :
        (caller[p] = "handler" /\ record[p].some /\ AllRequestedEqual(p)) =>
        /\ pc[p] = "done"
        /\ patch[p] = EmptyDict
        /\ result[p] = JSONResponse(FALSE)
        /\ Writes(p) = {}

C7_Witness ==
    \E p \in Procs :
        /\ caller[p] = "handler"
        /\ record[p].some
        /\ AllRequestedEqual(p)
        /\ req[p].insulin = NumText(2, 1)
        /\ Get(record[p].doc, "insulin") = Num(2, 0)
        /\ result[p] = JSONResponse(FALSE)

(* C8: the handler looks the record up by primary id first; by client id    *)
(* only second, after the first lookup found nothing and a client id was    *)
(* given; every PUT or DELETE is addressed to the found record's own _id;   *)
(* when no lookup finds a record the answer is 404 and nothing is written.  *)
FoundNothing(c) == c.code = 200 /\ c.n = 0

C8_ResolutionOrder ==
    \A p \in Procs :
        caller[p] = "handler" =>
        /\ NCalls(p) >= 1 =>
              calls[p][1].m = "GET_ID" /\ calls[p][1].id = req[p].id
        /\ \A i \in 1..NCalls(p) :
              calls[p][i].m = "GET_CID" =>
                 /\ i = 2
                 /\ FoundNothing(calls[p][1])
                 /\ Truthy(req[p].cid)
                 /\ calls[p][i].id = req[p].cid
        /\ (NCalls(p) = 1 /\ FoundNothing(calls[p][1]) /\ Truthy(req[p].cid)) =>
              pc[p] = "fetch_cid"
        /\ \A i \in Writes(p) :
              /\ record[p].some
              /\ calls[p][i].m \in {"PUT", "DELETE"} =>
                    calls[p][i].id = record[p].doc["_id"]
        /\ (/\ NCalls(p) >= 1
            /\ FoundNothing(calls[p][1])
            /\ (~Truthy(req[p].cid) \/ (NCalls(p) >= 2 /\ FoundNothing(calls[p][2])))) =>
              /\ pc[p] = "done"
              /\ result[p] = HTTPException(404, "Treatment not found")
              /\ Writes(p) = {}

C8_Witness ==
    \E p \in Procs :
        /\ caller[p] = "handler"
        /\ req[p].id = IdB
        /\ NCalls(p) = 3
        /\ calls[p][1].m = "GET_ID" /\ calls[p][1].n = 0
        /\ calls[p][2].m = "GET_CID" /\ calls[p][2].n = 1
        /\ calls[p][3].m = "PUT" /\ calls[p][3].id = IdA

(* C9: for a record whose notes are non-empty and do not start with the     *)
(* sentinel, the patch has no notes key, the metadata updates raise no      *)
(* error, and whatever the request wrote, the store still holds the record  *)
(* with the notes it had.                                                   *)
Foreign(notes) == Truthy(notes) /\ ~StartsWith(notes.z, META_PREFIX)

C9_ForeignNotesKept ==
    \A p \in Procs :
        (/\ caller[p] = "handler"
         /\ record[p].some
         /\ Foreign(Get(record[p].doc, "notes"))) =>
        /\ "notes" \notin DOMAIN patch[p]
        /\ result[p].err.kind # "TypeError"
        /\ \A i \in Writes(p) : "notes" \notin DOMAIN calls[p][i].body
        /\ \E d \in store :
              /\ Get(d, "_id") = Get(record[p].doc, "_id")
              /\ Get(d, "notes") = Get(record[p].doc, "notes")

C9_Witness ==
    \E p \in Procs :
        /\ caller[p] = "handler"
        /\ record[p].some
        /\ Get(record[p].doc, "notes") = NotesForeign
        /\ result[p] = JSONResponse(TRUE)
        /\ \E d \in store :
              Get(d, "insulin") = Num(3, 500000) /\ Get(d, "notes") = NotesForeign

-----------------------------------------------------------------------------
(* C10 as stated: for non-empty updates, when notes is empty or carries the *)
(* sentinel, decoding the encoded notes gives the prior metadata (the seed  *)
(* {ver: 1} for empty notes) with the updates merged in; for any other      *)
(* notes the encoder returns notes unchanged.                               *)
UpdKeys(updates) == {updates[i].k : i \in 1..Len(updates)}

\* the merge the claim describes: a null update removes the key, any other
\* overwrites, every other key of the prior metadata stays
MergedKeys(prior, updates) ==
    (MetaKeys(prior) \ UpdKeys(updates))
    \cup {k \in UpdKeys(updates) : MetaGet(updates, k) # None}

MergedValue(prior, updates, key) ==
    IF key \in UpdKeys(updates) THEN MetaGet(updates, key) ELSE MetaGet(prior, key)

IsMerge(meta, prior, updates) ==
    /\ MetaKeys(meta) = MergedKeys(prior, updates)
    /\ \A key \in MetaKeys(meta) : MetaGet(meta, key) = MergedValue(prior, updates, key)

PriorMeta(notes) ==
    IF Truthy(notes) THEN parse_meta(notes).d ELSE <<Pair("ver", Num(1, 0))>>

C10_DecodeEncodeMerges ==
    (ccount > 0 /\ cupd # <<>>) =>
    IF ~Truthy(cprev) \/ StartsWith(cprev.z, META_PREFIX)
    THEN /\ ~cout.raised
         /\ parse_meta(cout.notes).kind = "dict"
         /\ IsMerge(parse_meta(cout.notes).d, PriorMeta(cprev), cupd)
    ELSE ~cout.raised /\ cout.notes = cprev

-----------------------------------------------------------------------------
(* C11: for every notes value parse_meta returns a mapping, empty when the  *)
(* notes are empty, lack the sentinel or have an unparseable remainder, and *)
(* apply_meta_updates, which consumes it, does not raise.                   *)
C11_DecodeAlwaysMapping ==
    ccount > 0 =>
        /\ parse_meta(cprev).kind = "dict"
        /\ (\/ ~Truthy(cprev)
            \/ ~StartsWith(cprev.z, META_PREFIX)
            \/ cprev = NotesMetaBroken) => parse_meta(cprev) = JDict(<<>>)
        /\ ~cout.raised

-----------------------------------------------------------------------------
\* A raw form value that is a number above max.
Above(raw, max) ==
    /\ raw.t = "str" /\ Len(raw.z) = 1 /\ raw.z[1].k = "n"
    /\ (raw.z[1].w > max \/ (raw.z[1].w = max /\ raw.z[1].u > 0))

CarriesInvalidValue(r) ==
    \/ Above(r.insulin, 50)
    \/ Above(r.carbs, 2000)
    \/ Above(r.calories, 100000)
    \/ Above(r.protein, 10000)
    \/ r.eventType = Text("Snack")

(* C12: a handler request that carries an out-of-range value or an event    *)
(* type outside the closed set is rejected with 400 and no call to the      *)
(* remote store, lookups included, is made for it.                          *)
C12_ValidationBeforeRemoteCalls ==
    \A p \in Procs :
        (/\ caller[p] = "handler"
         /\ CarriesInvalidValue(req[p])
         /\ verify_init_data(req[p].init_data, settings.allowed_user_ids) = "") =>
        /\ NCalls(p) = 0
        /\ pc[p] = "done" => result[p] = HTTPException(400, "validation")

-----------------------------------------------------------------------------
Endpoints == {"handler", "get_treatment", "upload_image"}

\* The hash received is not the HMAC of the payload's data under the token.
SignatureMismatch(i) ==
    i.present /\ i.hasHash /\ i.hash # [key |-> TG_TOKEN, data |-> i.data]

UserNotAllowed(i) ==
    /\ i.present /\ i.hasHash /\ i.hash = [key |-> TG_TOKEN, data |-> i.data]
    /\ i.user = "json"
    /\ i.userId \notin settings.allowed_user_ids

(* C13: at each of the three endpoints a payload whose hash does not match  *)
(* the recomputed HMAC is rejected with "Invalid signature", a payload with *)
(* a valid signature and a user id outside the allow-list is rejected with  *)
(* "User is not allowed", and in both cases no remote call has been made.   *)
C13_SignatureGatesEndpoints ==
    \A p \in Procs :
        caller[p] \in Endpoints =>
        /\ SignatureMismatch(req[p].init_data) =>
              /\ pc[p] = "done"
              /\ result[p] = HTTPException(403, "Invalid signature")
              /\ NCalls(p) = 0
        /\ UserNotAllowed(req[p].init_data) =>
              /\ pc[p] = "done"
              /\ result[p] = HTTPException(403, "User is not allowed")
              /\ NCalls(p) = 0

-----------------------------------------------------------------------------
(* C14: when the PUT of update_treatment is answered with a 2xx status the  *)
(* call makes no further remote call and ends in success, returning the     *)
(* response body or, for an empty body, the synthetic {status: ok}.         *)
C14_PutSuccessReturns ==
    \A p \in Procs :
        (/\ caller[p] = "service"
         /\ HasPut(p)
         /\ IsSuccess(calls[p][PutAt(p)].code)) =>
        /\ NCalls(p) = 1
        /\ pc[p] = "done"
        /\ result[p].st = "returned"
        /\ result[p].ret \in {"json_body", "status_ok"}

-----------------------------------------------------------------------------
IsWrite(c) == c.m \in {"PUT", "DELETE", "POST"}
WriteLog(p) == SelectSeq(calls[p], IsWrite)
WriteOrder == <<"PUT", "DELETE", "POST", "POST">>

(* C15: the writes of one update are a prefix of PUT, DELETE, POST, POST,   *)
(* so at most one PUT, one DELETE and two POSTs and none repeated; a DELETE *)
(* follows only a PUT answered 404, and the second (restore) POST follows   *)
(* only a first (recreate) POST answered with an error status.              *)
C15_SingleFlightSequence ==
    \A p \in Procs :
        /\ Len(WriteLog(p)) <= 4
        /\ \A i \in 1..Len(WriteLog(p)) : WriteLog(p)[i].m = WriteOrder[i]
        /\ Len(WriteLog(p)) >= 2 => WriteLog(p)[1].code = 404
        /\ Len(WriteLog(p)) >= 4 => IsErrorStatus(WriteLog(p)[3].code)
        /\ pc[p] = "delete" =>
              Len(WriteLog(p)) = 1 /\ WriteLog(p)[1].code = 404
        /\ pc[p] = "insert" => Len(WriteLog(p)) = 2
        /\ pc[p] = "restore" =>
              Len(WriteLog(p)) = 3 /\ IsErrorStatus(WriteLog(p)[3].code)

C15_Witness ==
    \E p \in Procs :
        /\ pc[p] = "done"
        /\ Len(WriteLog(p)) = 4
        /\ WriteLog(p)[4].m = "POST"

-----------------------------------------------------------------------------
\* within the absolute tolerance of one millionth and within the relative
\* tolerance of one millionth of the larger of the two
WithinBothTolerances(a, b) ==
    /\ a.w - b.w \in {-1, 0, 1}
    /\ Millionths(a, b) <= 1
    /\ Millionths(a, b) <= Max(a.w, b.w)

EqualUnderBoth(stored, requested) ==
    \/ stored = None /\ requested = None
    \/ stored.t = "num" /\ requested.t = "num" /\ WithinBothTolerances(stored, requested)
    \/ ~(stored.t = "num" /\ requested.t = "num") /\ stored = requested

\* The handler has computed a patch for the record it found.
PatchComputed(p) ==
    /\ caller[p] = "handler"
    /\ record[p].some
    /\ ParseRequest(req[p]).ok
    /\ result[p].err.kind # "TypeError"

CodecOutput(p) ==
    apply_meta_updates(Get(record[p].doc, "notes"),
                       MetaUpdates(record[p].doc, ParseRequest(req[p])))

NotesKeyIffChanged(p) ==
    ("notes" \in DOMAIN patch[p]) <=>
        (CodecOutput(p).notes # Get(record[p].doc, "notes"))

(* C16: the patch holds each of the seven fields exactly when the requested *)
(* value differs from the stored one, numbers being equal when within both  *)
(* the relative and the absolute tolerance of 1e-6, and holds notes exactly *)
(* when the codec output differs from the stored notes.                     *)
C16_PatchMinimal ==
    \A p \in Procs :
        PatchComputed(p) =>
        /\ \A f \in PatchFields :
              (f \in DOMAIN patch[p]) <=>
                 ~EqualUnderBoth(Get(record[p].doc, f), ParseRequest(req[p])[f])
        /\ NotesKeyIffChanged(p)

(* C16 with the tolerance of math.isclose: numbers are equal when within    *)
(* the relative or the absolute tolerance of 1e-6 (the larger of the two).  *)
C16_PatchMinimalEitherTolerance ==
    \A p \in Procs :
        PatchComputed(p) =>
        /\ \A f \in PatchFields :
              (f \in DOMAIN patch[p]) <=>
                 ~EqualUnderRule(Get(record[p].doc, f), ParseRequest(req[p])[f])
        /\ NotesKeyIffChanged(p)

C16_Witness ==
    \E p \in Procs :
        /\ PatchComputed(p)
        /\ req[p].carbs = NumText(30, 2)
        /\ Get(record[p].doc, "carbs") = Num(30, 0)
        /\ patch[p] = EmptyDict
        /\ result[p] = JSONResponse(FALSE)

-----------------------------------------------------------------------------
(* C17: for every page_size >= 1 and every store content the number of rows *)
(* fetch_treatments_between returns does not exceed MAX_NIGHTSCOUT_FETCH.   *)
C17_FetchCapped ==
    (fpc = "done" /\ fout = "returned" /\ fpage >= 1) => fresults <= 5000

-----------------------------------------------------------------------------
\* The local day of a record: its creation time in UTC plus its utcOffset.
LocalDay(rec) ==
    (rec.created.clock - rec.created.tz
       + (IF rec.utcOffset.t = "int" THEN rec.utcOffset.m ELSE 0)) \div 1440

OnDay(rec, day) == rec.created.ok /\ LocalDay(rec) = day

ValueOf(rec, field) ==
    CASE field = "insulin" ->
            _pick_number(rec.insulin, MetaGet(parse_meta(rec.notes).d, "insulin_u"))
      [] field = "carbs" ->
            _pick_number(rec.carbs, MetaGet(parse_meta(rec.notes).d, "carbs_g"))
      [] OTHER ->
            _pick_number(rec.calories_kcal,
                         MetaGet(parse_meta(rec.notes).d, "calories_kcal"))

RECURSIVE CountOn(_, _)
CountOn(recs, day) ==
    IF recs = <<>> THEN 0
    ELSE (IF OnDay(Head(recs), day) THEN 1 ELSE 0) + CountOn(Tail(recs), day)

RECURSIVE SumOn(_, _, _)
SumOn(recs, day, field) ==
    IF recs = <<>> THEN Num(0, 0)
    ELSE IF OnDay(Head(recs), day) /\ ValueOf(Head(recs), field) # None
         THEN NumAdd(ValueOf(Head(recs), field), SumOn(Tail(recs), day, field))
         ELSE SumOn(Tail(recs), day, field)

Taken == SubSeq(atreat, 1, ai)
DaysInView == -2..3

(* C18: after any number of records the overall entry count is the number   *)
(* of records taken, and each day's bucket holds the count and the insulin, *)
(* carbs and calories sums of exactly the records with a parseable creation *)
(* time whose local day (UTC creation time plus utcOffset minutes) it is; a *)
(* record without a parseable creation time is in no bucket.                *)
C18_DailyBucketsAdditive ==
    aout # "raised" =>
        /\ atotals.entries = ai
        /\ DOMAIN adaily = {d \in DaysInView : CountOn(Taken, d) > 0}
        /\ \A d \in DaysInView :
              /\ DayStats(adaily, d).entries = CountOn(Taken, d)
              /\ DayStats(adaily, d).insulin = SumOn(Taken, d, "insulin")
              /\ DayStats(adaily, d).carbs = SumOn(Taken, d, "carbs")
              /\ DayStats(adaily, d).calories = SumOn(Taken, d, "calories")

-----------------------------------------------------------------------------
(* C19: once the call has ended, a recreate insert that failed, whether by  *)
(* an error status, a timeout or a transport error, was followed by the     *)
(* restore POST of the original document.                                   *)
C19_InsertFailureRestores ==
    \A p \in Procs :
        (/\ pc[p] = "done"
         /\ Len(WriteLog(p)) >= 3
         /\ WriteLog(p)[3].m = "POST"
         /\ ~IsSuccess(WriteLog(p)[3].code)) =>
        /\ Len(WriteLog(p)) = 4
        /\ WriteLog(p)[4].m = "POST"
        /\ WriteLog(p)[4].body = WithoutId(existing[p].doc)

-----------------------------------------------------------------------------
\* The call went PUT 404, DELETE accepted (200 or 404), insert accepted.
Recreated(p) ==
    /\ caller[p] = "service"
    /\ pc[p] = "done"
    /\ result[p].st = "returned"
    /\ Len(WriteLog(p)) = 3
    /\ WriteLog(p)[1].code = 404
    /\ WriteLog(p)[2].code \in {200, 404}
    /\ IsSuccess(WriteLog(p)[3].code)

DerivedFor(p, d) ==
    /\ Get(d, "_id") # tid[p]
    /\ WithoutId(d) = MergedWithoutId(existing[p].doc, patch[p])

(* C20: nothing coordinates two updates of the same id: whenever both have  *)
(* had their delete accepted and their insert succeed, the store holds two  *)
(* distinct documents, each the original record with one call's patch       *)
(* merged in, under ids other than the original.                            *)
C20_BothRecreatesLeaveTwoDocuments ==
    \A p, q \in Procs :
        (p # q /\ tid[p] = tid[q] /\ Recreated(p) /\ Recreated(q)) =>
        \E d1, d2 \in store :
            /\ d1 # d2
            /\ DerivedFor(p, d1)
            /\ DerivedFor(q, d2)

\* One delete was answered 200, the other 404, both inserts succeeded.
C20_Witness ==
    \E p, q \in Procs :
        /\ p # q
        /\ Recreated(p) /\ Recreated(q)
        /\ WriteLog(p)[2].code = 200
        /\ WriteLog(q)[2].code = 404
        /\ WithId(IdA) = {}
        /\ Cardinality(store) = 2

-----------------------------------------------------------------------------
ExtensionFields == {"calories_kcal", "protein_g", "meal", "photoUrl"}

\* The value of an extension field the record carries only in its metadata.
OnlyInMetadata(rec, f) ==
    /\ Get(rec, f) = None
    /\ parse_meta(Get(rec, "notes")).kind = "dict"
    /\ MetaHas(parse_meta(Get(rec, "notes")).d, f)

\* What the record holds for a field, first-class or in its metadata.
StoredValue(rec, f) ==
    IF f \in ExtensionFields /\ OnlyInMetadata(rec, f)
    THEN MetaGet(parse_meta(Get(rec, "notes")).d, f)
    ELSE Get(rec, f)

(* C21: an extension field the record carries only in its embedded metadata *)
(* is left out of the patch when the request carries the same value, and    *)
(* when every requested value equals the stored one in this sense the patch *)
(* is empty and nothing is written to the store.                            *)
C21_MetadataOnlyFieldsCompared ==
    \A p \in Procs :
        (version = "old" /\ PatchComputed(p)) =>
        /\ \A f \in ExtensionFields :
              (/\ OnlyInMetadata(record[p].doc, f)
               /\ EqualUnderRule(StoredValue(record[p].doc, f),
                                 ParseRequest(req[p])[f])) =>
              f \notin DOMAIN patch[p]
        /\ (\A f \in PatchFields :
               EqualUnderRule(StoredValue(record[p].doc, f),
                              ParseRequest(req[p])[f])) =>
              patch[p] = EmptyDict /\ Writes(p) = {}

-----------------------------------------------------------------------------
MirroredFields == PatchFields \ {"eventType"}

MirrorKey(f) ==
    CASE f = "insulin" -> "insulin_u"
      [] f = "carbs" -> "carbs_g"
      [] OTHER -> f

\* The metadata updates the handler hands to the codec for its request.
HandedUpdates(p) == MetaUpdates(record[p].doc, ParseRequest(req[p]))

UpdValue(updates, key) ==
    updates[CHOOSE i \in 1..Len(updates) : updates[i].k = key]

(* C22: every mirrored field of the patch (insulin, carbs, calories_kcal,   *)
(* protein_g, meal, photoUrl) has a metadata update under its metadata key  *)
(* with exactly the patched value, null included, and a field that is not   *)
(* in the patch has no metadata update.                                     *)
C22_MetadataMirrorsPatch ==
    \A p \in Procs :
        PatchComputed(p) =>
        \A f \in MirroredFields :
            IF f \in DOMAIN patch[p]
            THEN /\ MirrorKey(f) \in UpdKeys(HandedUpdates(p))
                 /\ UpdValue(HandedUpdates(p), MirrorKey(f)).v = patch[p][f]
            ELSE MirrorKey(f) \notin UpdKeys(HandedUpdates(p))

-----------------------------------------------------------------------------
\* The result the event type normalisation is to give for a raw value.
ClearedForm(value) ==
    \/ value = None
    \/ value = EmptyStr
    \/ Lower(value.z) = <<Tok("none")>>

NormalizesAsStated(value) ==
    IF ClearedForm(value) THEN _normalize_event_type(value) = Parsed(None)
    ELSE IF value.z \in AllowedEventTypes
         THEN _normalize_event_type(value) = Parsed(value)
    ELSE _normalize_event_type(value) = Invalid

(* C23: the event type of a request normalises to cleared, without error,   *)
(* when it is absent, empty or any casing of "none"; a label of the closed  *)
(* set is returned as is; every other value is rejected, and the handler    *)
(* answers 400 only for a rejected value.                                   *)
C23_EventTypeNormalization ==
    \A p \in Procs :
        (caller[p] = "handler" /\ req[p] # NoRequest) =>
        /\ NormalizesAsStated(req[p].eventType)
        /\ (result[p] = HTTPException(400, "validation")
             /\ req[p].eventType # Text("Snack")) =>
               ~ParseRequest([req[p] EXCEPT !.eventType = None]).ok

-----------------------------------------------------------------------------
NoPriorNotes(rec) == Get(rec, "notes") \in {None, EmptyStr}

NonNull(u) == u.v # None

\* The handler's request changes a mirrored field to a non-null value.
FirstUse(p) ==
    /\ PatchComputed(p)
    /\ NoPriorNotes(record[p].doc)
    /\ SelectSeq(HandedUpdates(p), NonNull) # <<>>

\* The sentinel followed by {ver: 1} and the changed keys with their values.
FreshMetadata(p) ==
    Meta(<<Pair("ver", Num(1, 0))>> \o SelectSeq(HandedUpdates(p), NonNull))

(* C24: for a record without notes, a request that changes a mirrored field *)
(* to a non-null value yields a patch whose notes are the sentinel followed *)
(* by {ver: 1} and each changed metadata key and value, and once the store  *)
(* has answered the PUT with a 2xx status the handler reports updated:true. *)
C24_MetadataCreatedOnFirstUse ==
    \A p \in Procs :
        FirstUse(p) =>
        /\ "notes" \in DOMAIN patch[p]
        /\ patch[p]["notes"] = FreshMetadata(p)
        /\ (pc[p] = "done" /\ HasPut(p) /\ IsSuccess(calls[p][PutAt(p)].code)) =>
              result[p] = JSONResponse(TRUE)

-----------------------------------------------------------------------------
\* The GET requests a call with this page size can need: ceil(cap / page_size).
MaxRequests(page_size) ==
    (MAX_NIGHTSCOUT_FETCH + page_size - 1) \div page_size

\* The answer of the last GET ends the loop without advancing skip.
EndsLoop(last, page_size) ==
    \/ last.kind \in {"error", "not_list"}
    \/ last.kind = "list" /\ last.len < page_size

(* C25: a call with page_size >= 1 makes a bounded number of GET requests,  *)
(* whatever the store answers: every request's skip is the number of rows   *)
(* received so far, the loop goes on only after a full page, which advances *)
(* skip by the rows of that page, and only while skip is below the cap; it  *)
(* has stopped after an error, a body that is no list, an empty or a short  *)
(* page, and once skip has reached the cap.                                 *)
C25_PagingTerminates ==
    (fpage >= 1 /\ fpc # "idle") =>
    /\ fgets <= MaxRequests(fpage)
    /\ fpc = "page" =>
          /\ fskip = fresults
          /\ fskip < MAX_NIGHTSCOUT_FETCH
          /\ fskip >= fgets * fpage
          /\ fgets > 0 =>
                /\ ~EndsLoop(flast, fpage)
                /\ fskip = flast.skip + flast.len
    /\ fpc = "done" =>
          /\ fgets > 0
          /\ EndsLoop(flast, fpage) \/ fskip >= MAX_NIGHTSCOUT_FETCH
          /\ EndsLoop(flast, fpage) => fskip = flast.skip

\* The loop has gone through several full pages and stopped at the cap.
C25_Witness ==
    /\ fpage >= 1
    /\ fpc = "done"
    /\ fout = "returned"
    /\ fgets = MaxRequests(fpage)
    /\ fgets >= 5
    /\ fskip >= MAX_NIGHTSCOUT_FETCH

-----------------------------------------------------------------------------
\* Notes that are empty, or the sentinel followed by a JSON object that has
\* at least one key.
MetadataStart(notes) ==
    \/ ~Truthy(notes)
    \/ /\ StartsWith(notes.z, META_PREFIX)
       /\ parse_meta(notes).kind = "dict"
       /\ parse_meta(notes).d # <<>>

\* The metadata keys the handler writes (main.py 142-166).
MirrorKeys == {MirrorKey(f) : f \in MirroredFields}

Readable(notes, key, value) ==
    /\ parse_meta(notes).kind = "dict"
    /\ MetaHas(parse_meta(notes).d, key)
    /\ MetaGet(parse_meta(notes).d, key) = value

(* C26: in a sequence of encode calls for the keys the handler mirrors that *)
(* started from notes that are empty or carry the sentinel followed by a    *)
(* JSON object, every call leaves each key it was given with a non-null     *)
(* value readable, with that value, through decode of the notes it returns. *)
C26_UpdatesNeverDropped ==
    (ccount > 0 /\ MetadataStart(cstart) /\ ckeys \subseteq MirrorKeys) =>
    \A i \in 1..Len(cupd) :
        cupd[i].v # None =>
            ~cout.raised /\ Readable(cout.notes, cupd[i].k, cupd[i].v)

-----------------------------------------------------------------------------
\* The request of p has been answered updated:true.
Applied(p) ==
    /\ caller[p] = "handler"
    /\ pc[p] = "done"
    /\ result[p] = JSONResponse(TRUE)

\* The stored record shows the change of p: its first-class fields and,
\* for a mirrored field, the metadata entry in the stored notes.
ShowsChange(doc, p) ==
    \A f \in DOMAIN patch[p] \ {"notes"} :
        /\ Get(doc, f) = patch[p][f]
        /\ (f \in MirroredFields /\ patch[p][f] # None) =>
              Readable(Get(doc, "notes"), MirrorKey(f), patch[p][f])

DifferentFields(p, q) ==
    /\ DOMAIN patch[p] \ {"notes"} # {}
    /\ DOMAIN patch[q] \ {"notes"} # {}
    /\ (DOMAIN patch[p] \cap DOMAIN patch[q]) \subseteq {"notes"}

(* C27: when two requests for the same record that change different fields *)
(* have both been answered updated:true, the stored record shows both       *)
(* changes, in its first-class fields and in the metadata of its notes.     *)
C27_ConcurrentChangesBothKept ==
    (/\ Applied("p1") /\ Applied("p2")
     /\ tid["p1"] = tid["p2"]
     /\ DifferentFields("p1", "p2")) =>
    \A doc \in WithId(tid["p1"]) :
        ShowsChange(doc, "p1") /\ ShowsChange(doc, "p2")

-----------------------------------------------------------------------------
Handed(update_id) == {i \in 1..Len(bhanded) : bhanded[i] = update_id}

\* The update would be in the answer to a getUpdates call made now.
RequestedAgain(update_id) == update_id \in Unconfirmed(tqueue, boffset)

(* C28: run hands every update to the handler at most once and in the order *)
(* of the batch; while the handler runs the offset is already update_id + 1,*)
(* so an update whose handler raised is not requested again; after a        *)
(* handler exception the rest of the batch is still taken, and run ends     *)
(* neither on a handler exception nor on a getUpdates failure, only on      *)
(* cancellation.                                                            *)
C28_UpdatesHandledAtMostOnce ==
    /\ \A u \in 1..MaxUpdates : Cardinality(Handed(u)) <= 1
    /\ \A i, j \in 1..Len(bhanded) : i < j => bhanded[i] < bhanded[j]
    /\ bpc = "handle" => boffset = OffsetOf(bcur + 1)
    /\ \A u \in braised : ~RequestedAgain(u) /\ \A i \in 1..Len(bbatch) : bbatch[i] # u
    /\ (bbatch # <<>> /\ bpc # "closed") => bpc \in {"take", "handle"}
    /\ bpc = "closed" <=> bend = "CancelledError"

\* Every update has been handed over, the handler of the first one raised
\* and run went on to the later ones; it polls again with the offset past
\* the last update, which the server has not yet dropped.
C28_Witness ==
    /\ bpc = "poll"
    /\ Len(bhanded) = MaxUpdates
    /\ bhanded[1] \in braised
    /\ bhanded[2] \notin braised
    /\ boffset = OffsetOf(MaxUpdates + 1)
    /\ tqueue = {MaxUpdates}

====
